---- MODULE Spec2Model ----
(***************************************************************************)
(* Model of AutoScribe's PacingController (src/src/main/stt/STTEngine.ts,  *)
(* lines 296-431): the pending-segment queue, the single setTimeout        *)
(* handle, the three release algorithms and the stop/flush/clear control   *)
(* surface.  Strings are sequences of one-character strings so that        *)
(* split(/\s+/).filter(Boolean) and join(' ') are computed, not assumed.   *)
(* Timers are the set of callbacks that setTimeout has registered and that *)
(* have neither fired nor been cancelled by clearTimeout.                  *)
(***************************************************************************)
EXTENDS Integers, Sequences, FiniteSets, TLC

\* Number of enqueue calls explored.
MaxSegs == 3

\* constructor(maxSegments = 1000) of TranscriptBuffer
DefaultMaxSegments == 1000

\* DEFAULT_SETTINGS.pacing
DefaultWpm == 150
DefaultSentenceDelay == 500

Modes == {"sentence", "streaming", "instant"}
Wpms == {DefaultWpm, 300}
Delays == {DefaultSentenceDelay, 0}

\* Texts of the segments handed to enqueue: whitespace only (no word),
\* one word, two words separated by two blanks.
Texts == { <<" ">>, <<"a">>, <<"a", " ", " ", "b">> }

Whitespace == {" ", "\t", "\n"}

\* A text of k one-letter words separated by single spaces.
Sentence(k) == [i \in 1..(2 * k - 1) |-> IF i % 2 = 1 THEN "a" ELSE " "] \o <<>>

\* Texts of zero, seven and ten words.
SentenceTexts == {<<" ">>, Sentence(7), Sentence(10)}

\* Texts of zero, one and three words.
StreamTexts == {<<" ">>, <<"a">>, <<"a", " ", "b", "\t", "c">>}

\* Wpm values of the speed slider: the default and its neighbour.
StreamWpms == {DefaultWpm, DefaultWpm + 1}

VARIABLES
    queue,      \* PacingController.queue
    timer,      \* PacingController.timer: 0 is null, else the handle of the last setTimeout
    pending,    \* the runtime's outstanding timers (scheduled, not fired, not cleared)
    settings,   \* PacingController.settings
    isRunning,  \* PacingController._isRunning
    emitted,    \* every PacedSegment handed to the 'paced' listeners, in order
    nextId,     \* next segment id (handlers.ts assigns a fresh uuid per STT result)
    accepted,   \* the segments that enqueue pushed on the queue, in call order
    discarded,  \* ids of the segments that clear() removed from the queue
    stopped,    \* stop() was called and neither enqueue nor flush since
    main        \* the main process around the engine: handlers.ts's transcriptBuffer
                \* and the control window of index.ts

vars == <<queue, timer, pending, settings, isRunning, emitted, nextId,
          accepted, discarded, stopped, main>>

-----------------------------------------------------------------------------
(* text.split(/\s+/).filter(Boolean) and words.join(' ')                   *)

RECURSIVE SplitAcc(_, _, _)
SplitAcc(text, cur, acc) ==
    IF text = <<>> THEN (IF cur = <<>> THEN acc ELSE Append(acc, cur))
    ELSE IF Head(text) \in Whitespace
         THEN SplitAcc(Tail(text), <<>>, IF cur = <<>> THEN acc ELSE Append(acc, cur))
         ELSE SplitAcc(Tail(text), Append(cur, Head(text)), acc)

\* The non-empty whitespace-separated tokens of text, in order.
SplitWords(text) == SplitAcc(text, <<>>, <<>>)

RECURSIVE JoinWords(_)
JoinWords(words) ==
    IF words = <<>> THEN <<>>
    ELSE IF Len(words) = 1 THEN words[1]
    ELSE words[1] \o <<" ">> \o JoinWords(Tail(words))

-----------------------------------------------------------------------------
(* JavaScript numbers are IEEE-754 binary64.  A non-negative finite number  *)
(* is [bits, e]: bits is its significand, most significant bit first and    *)
(* without leading zeros (empty for 0), and its value is bits * 2^e.  Every *)
(* operation rounds its exact result to 53 significant bits, ties to even.  *)
(* The digits are computed in limbs, as long arithmetic does.               *)

\* Significant binary digits of a binary64 number.
Precision == 53

\* A limb of a product holds 16 binary digits, a limb of a quotient 20.
Limb == 2^16
QuotientLimb == 2^20

\* The one element of a one-element set: The({e : v \in {x}}) is e with v
\* naming the value of x, computed once.
The(S) == CHOOSE v \in S : TRUE

\* The last width binary digits of the natural number n.
DigitsOf(n, width) == [i \in 1..width |-> (n \div 2^(width - i)) % 2]

\* The natural number with the binary digits digits.
NaturalOf(digits) ==
    The({LET value[i \in 0..Len(bits)] ==
                 IF i = 0 THEN 0 ELSE 2 * value[i - 1] + bits[i]
         IN  value[Len(bits)] :
            bits \in {digits}})

StripLeadingZeros(digits) ==
    The({IF \A i \in DOMAIN bits : bits[i] = 0 THEN <<>>
         ELSE SubSeq(bits,
                     CHOOSE i \in DOMAIN bits :
                         bits[i] = 1 /\ \A j \in 1..(i - 1) : bits[j] = 0,
                     Len(bits)) :
            bits \in {digits}})

StripTrailingZeros(digits) ==
    The({IF \A i \in DOMAIN bits : bits[i] = 0 THEN <<>>
         ELSE SubSeq(bits, 1,
                     CHOOSE i \in DOMAIN bits :
                         bits[i] = 1 /\ \A j \in (i + 1)..Len(bits) : bits[j] = 0) :
            bits \in {digits}})

\* digits + 1, one digit longer when every digit is 1
Increment(digits) ==
    The({IF \A i \in DOMAIN bits : bits[i] = 1
         THEN <<1>> \o [i \in DOMAIN bits |-> 0]
         ELSE LET last == CHOOSE i \in DOMAIN bits :
                              bits[i] = 0 /\ \A j \in (i + 1)..Len(bits) : bits[j] = 1
              IN  SubSeq(bits, 1, last - 1) \o <<1>>
                     \o [i \in 1..(Len(bits) - last) |-> 0] :
            bits \in {digits}})

\* Round the exact value digits * 2^e (plus something below its last digit
\* when sticky) to Precision significant digits, to nearest, ties to even.
RoundToDouble(digits, e, sticky) ==
    The({IF Len(bits) <= Precision
         THEN [bits |-> bits, e |-> e]
         ELSE LET kept    == SubSeq(bits, 1, Precision)
                  dropped == SubSeq(bits, Precision + 1, Len(bits))
                  guard   == dropped[1] = 1
                  rest    == sticky \/ \E i \in 2..Len(dropped) : dropped[i] = 1
                  up      == guard /\ (rest \/ kept[Precision] = 1)
                  rounded == IF up THEN Increment(kept) ELSE kept
              IN  IF Len(rounded) > Precision
                  THEN [bits |-> SubSeq(rounded, 1, Precision),
                        e |-> e + Len(dropped) + 1]
                  ELSE [bits |-> rounded, e |-> e + Len(dropped)] :
            bits \in {digits}})

\* n / w for natural numbers n and w with 0 < w < 2^11: long division
\* continued to four limbs (80 digits) below the binary point, then rounded.
FloatDivide(n, w) ==
    The({LET limb(left) == DigitsOf((left * QuotientLimb) \div w, 20)
         IN  RoundToDouble(
                 StripLeadingZeros(DigitsOf(n \div w, 31) \o limb(r[1]) \o limb(r[2])
                                      \o limb(r[3]) \o limb(r[4])),
                 -80, (r[4] * QuotientLimb) % w # 0) :
            r \in {LET remainder[i \in 1..4] ==
                           IF i = 1 THEN n % w
                           ELSE (remainder[i - 1] * QuotientLimb) % w
                   IN  <<remainder[1], remainder[2], remainder[3], remainder[4]>>}})

\* The digits of digits * k + d for at most 64 digits and natural numbers
\* k < 2^14 and d < 2^16, leading zeros included.
TimesDigits(digits, k, d) ==
    LET bits == [i \in 1..(64 - Len(digits)) |-> 0] \o digits
        t[j \in 1..4] == NaturalOf(SubSeq(bits, 16 * j - 15, 16 * j)) * k
                            + (IF j = 4 THEN d ELSE t[j + 1] \div Limb)
    IN  The({DigitsOf(s[1], 31) \o DigitsOf(s[2], 16)
                 \o DigitsOf(s[3], 16) \o DigitsOf(s[4], 16) :
                s \in {<<t[1], t[2], t[3], t[4]>>}})

\* x * k for a natural number k
FloatTimes(x, k) ==
    The({RoundToDouble(StripLeadingZeros(TimesDigits(v.bits, k, 0)), v.e, FALSE) :
            v \in {x}})

\* The digits of x above the binary point and those below it.
IntegerDigits(x) ==
    IF x.e >= 0 THEN x.bits \o [i \in 1..x.e |-> 0]
    ELSE SubSeq(x.bits, 1, Len(x.bits) + x.e)

FractionDigits(x) ==
    IF x.e >= 0 THEN <<>>
    ELSE IF Len(x.bits) + x.e >= 0
         THEN SubSeq(x.bits, Len(x.bits) + x.e + 1, Len(x.bits))
         ELSE [i \in 1..(-x.e - Len(x.bits)) |-> 0] \o x.bits

\* x + d for a natural number d
FloatPlus(x, d) ==
    The({RoundToDouble(StripLeadingZeros(TimesDigits(IntegerDigits(v), 1, d)
                                            \o FractionDigits(v)),
                       -Len(FractionDigits(v)), FALSE) :
            v \in {x}})

\* A number as the model stores it: its integer part and the binary digits
\* of its fraction, none when the number is whole.
NumberOf(x) ==
    The({[int  |-> NaturalOf(IntegerDigits(v)),
          frac |-> StripTrailingZeros(FractionDigits(v))] :
            v \in {x}})

\* The integer n as a number.
Number(n) == [int |-> n, frac |-> <<>>]

\* The numbers that are not finite.
Infinity == [int |-> 0, frac |-> <<>>, nonfinite |-> "Infinity"]
NaN == [int |-> 0, frac |-> <<>>, nonfinite |-> "NaN"]

-----------------------------------------------------------------------------
(* The engine's fields as one record, so that the methods are operators.   *)

Engine == [queue |-> queue, timer |-> timer, pending |-> pending,
           isRunning |-> isRunning, emitted |-> emitted]

NoSegment == [id |-> 0, text |-> <<>>, isFinal |-> FALSE]

\* () => this.processNext()
ProcessNextCallback ==
    [kind |-> "processNext", words |-> <<>>, originalSegment |-> NoSegment, index |-> 0]

\* () => this.emitWordsSequentially(words, originalSegment, index + 1)
EmitWordsCallback(words, originalSegment, index) ==
    [kind |-> "emitWordsSequentially", words |-> words,
     originalSegment |-> originalSegment, index |-> index]

TimerIds(st) == {t.id : t \in st.pending}

\* A handle that names no outstanding timer and differs from the stored one.
FreshTimer(st) ==
    CHOOSE n \in 1..(Cardinality(st.pending) + 2) :
        /\ n \notin TimerIds(st) \cup {st.timer}
        /\ \A m \in 1..(n - 1) : m \in TimerIds(st) \cup {st.timer}

\* this.timer = setTimeout(callback, delay)
setTimeout(st, callback, delay) ==
    LET id == FreshTimer(st) IN
    [st EXCEPT !.timer = id,
               !.pending = @ \cup {[id |-> id, callback |-> callback, delay |-> delay]}]

\* clearTimeout(handle): a no-op when the handle names no outstanding timer.
clearTimeout(st, handle) ==
    [st EXCEPT !.pending = {t \in @ : t.id # handle}]

\* this.emit('paced', paced)
emit(st, paced) == [st EXCEPT !.emitted = Append(@, paced)]

\* The word counts and the settings of the model.
WordCounts == {Len(SplitWords(text)) : text \in Texts \cup SentenceTexts \cup StreamTexts}

\* durationMs of a sentence, computed once for every word count and setting:
\* ((wordCount / wpm) * 60 * 1000) + sentenceDelay
DurationMs ==
    [wordCount \in WordCounts, wpm \in Wpms \cup StreamWpms, sentenceDelay \in Delays |->
        NumberOf(FloatPlus(FloatTimes(FloatTimes(FloatDivide(wordCount, wpm), 60), 1000),
                           sentenceDelay))] @@ <<>>

\* intervalMs of a word, computed once for every setting: (60 / wpm) * 1000
IntervalMs ==
    [wpm \in Wpms \cup StreamWpms |-> NumberOf(FloatTimes(FloatDivide(60, wpm), 1000))]
        @@ <<>>

\* A bug that multiplies before it divides: (wordCount * 60 * 1000) / wpm + sentenceDelay
SentenceDuration_multiplyFirst(wordCount, s) ==
    NumberOf(FloatPlus(FloatDivide(wordCount * 60 * 1000, s.wpm), s.sentenceDelay))

\* A bug that reads DEFAULT_SETTINGS.pacing for this.settings.
SentenceDuration_defaults(wordCount, s) ==
    NumberOf(FloatPlus(FloatTimes(FloatTimes(FloatDivide(wordCount, DefaultWpm), 60), 1000),
                       DefaultSentenceDelay))

\* ((wordCount / wpm) * 60 * 1000) + sentenceDelay.  No code keeps wpm
\* positive: with wpm 0 the quotient is NaN (0 / 0) or Infinity and stays so;
\* with wpm -1 it is -wordCount and every operation is exact.
SentenceDuration(wordCount, s) ==
    IF s.wpm > 0 THEN DurationMs[wordCount, s.wpm, s.sentenceDelay]
    ELSE IF s.wpm = 0 THEN (IF wordCount = 0 THEN NaN ELSE Infinity)
    ELSE Number(((wordCount \div (-s.wpm)) * (-1) * 60 * 1000) + s.sentenceDelay)

\* A bug that reads DEFAULT_SETTINGS.pacing.wpm for this.settings.wpm.
WordInterval_defaults(s) == IntervalMs[DefaultWpm]

\* (60 / wpm) * 1000
WordInterval(s) ==
    IF s.wpm > 0 THEN IntervalMs[s.wpm]
    ELSE IF s.wpm = 0 THEN Infinity
    ELSE Number((60 \div (-s.wpm)) * (-1) * 1000)

\* A bug that takes the newest segment: this.queue.pop()
shift_pop(q) == [segment |-> q[Len(q)], rest |-> SubSeq(q, 1, Len(q) - 1)]

\* this.queue.shift(): the removed head and what stays queued
shift(q) == [segment |-> Head(q), rest |-> Tail(q)]

RECURSIVE processNext(_, _), emitWordsSequentially(_, _, _, _, _)

\* A change that returns to idle, without a timer, after emitting the last
\* queued segment in sentence mode.
processNext_idleAfterLast(st, s) ==
    IF Len(st.queue) = 0
    THEN [st EXCEPT !.isRunning = FALSE]
    ELSE LET segment == shift(st.queue).segment
             shifted == [st EXCEPT !.queue = shift(@).rest]
             wordCount == Len(SplitWords(segment.text))
         IN  IF s.mode = "sentence"
             THEN LET durationMs == SentenceDuration(wordCount, s)
                      paced == [segment |-> segment, displayDuration |-> durationMs]
                  IN  IF Len(shifted.queue) = 0
                      THEN [emit(shifted, paced) EXCEPT !.isRunning = FALSE]
                      ELSE setTimeout(emit(shifted, paced), ProcessNextCallback,
                                      durationMs)
             ELSE IF s.mode = "streaming"
             THEN emitWordsSequentially(shifted, s, SplitWords(segment.text), segment, 0)
             ELSE shifted

\* A change that passes whole milliseconds to the timer: Math.floor(durationMs)
processNext_wholeDelay(st, s) ==
    IF Len(st.queue) = 0
    THEN [st EXCEPT !.isRunning = FALSE]
    ELSE LET segment == shift(st.queue).segment
             shifted == [st EXCEPT !.queue = shift(@).rest]
             wordCount == Len(SplitWords(segment.text))
         IN  IF s.mode = "sentence"
             THEN LET durationMs == SentenceDuration(wordCount, s)
                      paced == [segment |-> segment, displayDuration |-> durationMs]
                  IN  setTimeout(emit(shifted, paced), ProcessNextCallback,
                                 Number(durationMs.int))
             ELSE IF s.mode = "streaming"
             THEN emitWordsSequentially(shifted, s, SplitWords(segment.text), segment, 0)
             ELSE shifted

\* A change that returns to idle when the mode in effect at the pop is instant.
processNext_idleOnInstant(st, s) ==
    IF Len(st.queue) = 0
    THEN [st EXCEPT !.isRunning = FALSE]
    ELSE LET segment == shift(st.queue).segment
             shifted == [st EXCEPT !.queue = shift(@).rest]
             wordCount == Len(SplitWords(segment.text))
         IN  IF s.mode = "sentence"
             THEN LET durationMs == SentenceDuration(wordCount, s)
                      paced == [segment |-> segment, displayDuration |-> durationMs]
                  IN  setTimeout(emit(shifted, paced), ProcessNextCallback, durationMs)
             ELSE IF s.mode = "streaming"
             THEN emitWordsSequentially(shifted, s, SplitWords(segment.text), segment, 0)
             ELSE [shifted EXCEPT !.isRunning = FALSE]

processNext(st, s) ==
    IF Len(st.queue) = 0
    THEN [st EXCEPT !.isRunning = FALSE]
    ELSE LET segment == shift(st.queue).segment
             shifted == [st EXCEPT !.queue = shift(@).rest]
             wordCount == Len(SplitWords(segment.text))
         IN  IF s.mode = "sentence"
             THEN LET durationMs == SentenceDuration(wordCount, s)
                      paced == [segment |-> segment, displayDuration |-> durationMs]
                  IN  setTimeout(emit(shifted, paced), ProcessNextCallback, durationMs)
             ELSE IF s.mode = "streaming"
             THEN emitWordsSequentially(shifted, s, SplitWords(segment.text), segment, 0)
             ELSE shifted

\* A bug that emits the current word alone: words[index] for the joined prefix.
emitWordsSequentially_singleWord(st, s, words, originalSegment, index) ==
    IF index >= Len(words)
    THEN processNext(st, s)
    ELSE LET wordSegment == [originalSegment EXCEPT
                                !.text = words[index + 1],
                                !.isFinal = (index = Len(words) - 1)]
             intervalMs == WordInterval(s)
             paced == [segment |-> wordSegment, displayDuration |-> intervalMs]
         IN  setTimeout(emit(st, paced),
                        EmitWordsCallback(words, originalSegment, index + 1),
                        intervalMs)

\* A change that goes on to the next segment right after the last word,
\* without a timer.
emitWordsSequentially_noLastTimer(st, s, words, originalSegment, index) ==
    IF index >= Len(words)
    THEN processNext(st, s)
    ELSE LET partialText == JoinWords(SubSeq(words, 1, index + 1))
             wordSegment == [originalSegment EXCEPT
                                !.text = partialText,
                                !.isFinal = (index = Len(words) - 1)]
             intervalMs == WordInterval(s)
             paced == [segment |-> wordSegment, displayDuration |-> intervalMs]
         IN  IF index = Len(words) - 1
             THEN processNext(emit(st, paced), s)
             ELSE setTimeout(emit(st, paced),
                             EmitWordsCallback(words, originalSegment, index + 1),
                             intervalMs)

\* A bug that returns early on a segment without words: if (words.length === 0) return;
emitWordsSequentially_returnsOnEmpty(st, s, words, originalSegment, index) ==
    IF Len(words) = 0
    THEN st
    ELSE IF index >= Len(words)
    THEN processNext(st, s)
    ELSE LET partialText == JoinWords(SubSeq(words, 1, index + 1))
             wordSegment == [originalSegment EXCEPT
                                !.text = partialText,
                                !.isFinal = (index = Len(words) - 1)]
             intervalMs == WordInterval(s)
             paced == [segment |-> wordSegment, displayDuration |-> intervalMs]
         IN  setTimeout(emit(st, paced),
                        EmitWordsCallback(words, originalSegment, index + 1),
                        intervalMs)

emitWordsSequentially(st, s, words, originalSegment, index) ==
    IF index >= Len(words)
    THEN processNext(st, s)
    ELSE LET partialText == JoinWords(SubSeq(words, 1, index + 1))
             wordSegment == [originalSegment EXCEPT
                                !.text = partialText,
                                !.isFinal = (index = Len(words) - 1)]
             intervalMs == WordInterval(s)
             paced == [segment |-> wordSegment, displayDuration |-> intervalMs]
         IN  setTimeout(emit(st, paced),
                        EmitWordsCallback(words, originalSegment, index + 1),
                        intervalMs)

\* A bug that drops the "if (!this._isRunning)" test around processNext().
enqueue_alwaysProcess(st, s, segment) ==
    IF s.mode = "instant"
    THEN emit(st, [segment |-> segment, displayDuration |-> Number(0)])
    ELSE processNext([st EXCEPT !.queue = Append(@, segment), !.isRunning = TRUE], s)

\* A bug that omits the "return" after the instant emission.
enqueue_noReturn(st, s, segment) ==
    LET sent == IF s.mode = "instant"
                THEN emit(st, [segment |-> segment, displayDuration |-> Number(0)])
                ELSE st
        pushed == [sent EXCEPT !.queue = Append(@, segment)]
    IN  IF ~pushed.isRunning
        THEN processNext([pushed EXCEPT !.isRunning = TRUE], s)
        ELSE pushed

\* A bug that releases what is queued before the instant emission, to keep
\* the order of arrival.
enqueue_instantFlushes(st, s, segment) ==
    IF s.mode = "instant"
    THEN LET halted == [clearTimeout(st, st.timer) EXCEPT !.timer = 0, !.isRunning = FALSE]
             sent == [i \in DOMAIN st.queue |-> [segment |-> st.queue[i], displayDuration |-> Number(0)]]
         IN  emit([halted EXCEPT !.queue = <<>>, !.emitted = @ \o sent],
                  [segment |-> segment, displayDuration |-> Number(0)])
    ELSE LET pushed == [st EXCEPT !.queue = Append(@, segment)]
         IN  IF ~pushed.isRunning
             THEN processNext([pushed EXCEPT !.isRunning = TRUE], s)
             ELSE pushed

\* A bug that adds at the head of the queue: this.queue.unshift(segment)
enqueue_unshift(st, s, segment) ==
    IF s.mode = "instant"
    THEN emit(st, [segment |-> segment, displayDuration |-> Number(0)])
    ELSE LET pushed == [st EXCEPT !.queue = <<segment>> \o @]
         IN  IF ~pushed.isRunning
             THEN processNext([pushed EXCEPT !.isRunning = TRUE], s)
             ELSE pushed

enqueue(st, s, segment) ==
    IF s.mode = "instant"
    THEN emit(st, [segment |-> segment, displayDuration |-> Number(0)])
    ELSE LET pushed == [st EXCEPT !.queue = Append(@, segment)]
         IN  IF ~pushed.isRunning
             THEN processNext([pushed EXCEPT !.isRunning = TRUE], s)
             ELSE pushed

\* A bug that does what the method's doc comment says: "Stop pacing and clear the queue."
stop_clearsQueue(st) ==
    [clearTimeout(st, st.timer) EXCEPT !.timer = 0, !.isRunning = FALSE, !.queue = <<>>]

\* A bug that forgets the handle without calling clearTimeout.
stop_dropsHandle(st) == [st EXCEPT !.timer = 0, !.isRunning = FALSE]

\* A runtime in which clearTimeout throws for a timer that has fired: stop()
\* is left at that call, before it changes a field.
stop_throwsOnStale(st) ==
    IF st.timer # 0 /\ st.timer \notin TimerIds(st)
    THEN st
    ELSE LET cleared == IF st.timer # 0
                        THEN [clearTimeout(st, st.timer) EXCEPT !.timer = 0]
                        ELSE st
         IN  [cleared EXCEPT !.isRunning = FALSE]

stop(st) ==
    LET cleared == IF st.timer # 0
                   THEN [clearTimeout(st, st.timer) EXCEPT !.timer = 0]
                   ELSE st
    IN  [cleared EXCEPT !.isRunning = FALSE]

RECURSIVE EmitAll(_, _)
\* for (const segment of this.queue) this.emit('paced', {segment, displayDuration: 0})
EmitAll(st, segments) ==
    IF segments = <<>> THEN st
    ELSE EmitAll(emit(st, [segment |-> Head(segments), displayDuration |-> Number(0)]),
                 Tail(segments))

\* A bug that emits the queue without calling stop() first.
flush_keepsTimer(st) == [EmitAll(st, st.queue) EXCEPT !.queue = <<>>]

\* A bug that omits "this.queue = []".
flush_keepsQueue(st) == LET halted == stop(st) IN EmitAll(halted, halted.queue)

flush(st) ==
    LET halted == stop(st)
    IN  [EmitAll(halted, halted.queue) EXCEPT !.queue = <<>>]

\* A bug that omits "this.queue = []".
clear_onlyStops(st) == stop(st)

\* A change that tells the listeners to blank: an empty 'paced' emission.
clear_notifies(st) ==
    emit([stop(st) EXCEPT !.queue = <<>>],
         [segment |-> NoSegment, displayDuration |-> Number(0)])

clear(st) == [stop(st) EXCEPT !.queue = <<>>]

\* A change that validates: a wpm that is not positive is ignored.
updateSettings_validates(s, partial) ==
    [f \in DOMAIN s |-> IF f \in DOMAIN partial /\ ~(f = "wpm" /\ partial[f] <= 0)
                        THEN partial[f] ELSE s[f]]

\* { ...this.settings, ...settings }: partial is a function on a subset of the fields.
updateSettings(s, partial) ==
    [f \in DOMAIN s |-> IF f \in DOMAIN partial THEN partial[f] ELSE s[f]]

\* The callback of an expired timer.
runCallback(st, s, callback) ==
    IF callback.kind = "processNext"
    THEN processNext(st, s)
    ELSE emitWordsSequentially(st, s, callback.words, callback.originalSegment,
                               callback.index)

-----------------------------------------------------------------------------
(* TranscriptBuffer (STTEngine.ts, lines 227-281) and the control window.   *)

\* A bug that trims the newest: this.segments.slice(0, this.maxSegments)
add_keepsOldest(buffer, segment) ==
    LET pushed == Append(buffer.segments, segment) IN
    [buffer EXCEPT !.segments =
        IF Len(pushed) > buffer.maxSegments
        THEN SubSeq(pushed, 1, buffer.maxSegments)
        ELSE pushed]

\* this.segments.push(segment), then the oldest are trimmed when over capacity:
\* this.segments.slice(this.segments.length - this.maxSegments)
add(buffer, segment) ==
    LET pushed == Append(buffer.segments, segment) IN
    [buffer EXCEPT !.segments =
        IF Len(pushed) > buffer.maxSegments
        THEN SubSeq(pushed, Len(pushed) - buffer.maxSegments + 1, Len(pushed))
        ELSE pushed]

\* TranscriptBuffer.clear()
clearSegments(buffer) == [buffer EXCEPT !.segments = <<>>]

\* A bug that tests the window the wrong way round: control.isDestroyed()
send_whenDestroyed(window, segment) ==
    IF window.isDestroyed
    THEN [window EXCEPT !.received = Append(@, segment)]
    ELSE window

\* if (control && !control.isDestroyed()) control.webContents.send(..., segment)
send(window, segment) ==
    IF ~window.isDestroyed
    THEN [window EXCEPT !.received = Append(@, segment)]
    ELSE window

-----------------------------------------------------------------------------
(* The state machine.                                                       *)

SetEngine(st) ==
    /\ queue' = st.queue
    /\ timer' = st.timer
    /\ pending' = st.pending
    /\ isRunning' = st.isRunning
    /\ emitted' = st.emitted

Ids(segments) == {segments[i].id : i \in DOMAIN segments}

\* The partial settings objects passed to updateSettings.
Partials ==
    {[mode |-> m] : m \in Modes}
    \cup {[wpm |-> w] : w \in Wpms}
    \cup {[sentenceDelay |-> d] : d \in Delays}
    \cup {[mode |-> m, wpm |-> w, sentenceDelay |-> d] :
             m \in Modes, w \in Wpms, d \in Delays}

\* Wpm values that a caller can pass and no slider offers.
InvalidWpms == {0, -1}

\* Partial settings objects with wpm values of any sign: one field, or all
\* three as the control panel sends them.
AnyPartials ==
    {[mode |-> m] : m \in {"sentence", "streaming"}}
    \cup {[wpm |-> w] : w \in {DefaultWpm} \cup InvalidWpms}
    \cup {[mode |-> m, wpm |-> w, sentenceDelay |-> DefaultSentenceDelay] :
             m \in {"sentence", "streaming"}, w \in {DefaultWpm} \cup InvalidWpms}

\* Those that change the delivery mode only.
ModePartials == {p \in Partials : DOMAIN p = {"mode"}}

\* Those that never select instant mode.
PacedPartials ==
    {p \in Partials : /\ Cardinality(DOMAIN p) = 1
                      /\ "mode" \in DOMAIN p => p.mode # "instant"}

\* new TranscriptBuffer(maxSegments), and the control window that
\* createControlWindow() opens when the application is ready.
Main(maxSegments) ==
    [transcriptBuffer |-> [segments |-> <<>>, maxSegments |-> maxSegments],
     controlWindow |-> [isDestroyed |-> FALSE, received |-> <<>>],
     \* handlers.ts:21-23, 125
     sessionStatus |-> "idle",
     sttReady |-> FALSE,
     audioTesting |-> FALSE,
     \* the call of the transcriber SESSION_STOP is awaiting in flush(), or 0
     stopAwaiting |-> 0,
     \* history: the recording stream of the latest SESSION_START, and
     \* whether SESSION_STOP has been handled since
     session |-> [stream |-> 0, stopped |-> FALSE],
     \* AudioCaptureManager.ts:21-29, AudioProcessor.ts:8; stream counts the
     \* recordings started, chunks the chunks the current one has delivered,
     \* level is the last 'level' event and delivered counts all chunks
     audioCapture |-> [recording |-> FALSE, _isRecording |-> FALSE,
                       paused |-> FALSE, stream |-> 0, chunks |-> 0,
                       listeners |-> <<>>,
                       processor |-> [headerStripped |-> FALSE],
                       level |-> [offset |-> 0, samples |-> 0],
                       delivered |-> 0],
     \* WhisperEngine (STTEngine.ts:57-67); transcriber.calls are the arrays
     \* passed to the pipeline, transcriber.running the calls not yet settled
     sttEngine |-> [_isReady |-> FALSE, audioBuffer |-> <<>>, totalSamples |-> 0,
                    processing |-> FALSE, headerSkipped |-> FALSE,
                    transcriber |-> [calls |-> <<>>, running |-> {}]],
     \* NetworkServer.ts:17-24; servers are the HTTP servers created so far
     networkServer |-> [_isRunning |-> FALSE, httpServer |-> 0, wss |-> 0,
                        servers |-> <<>>, recentSegments |-> <<>>],
     \* index.ts:24 and the lines state of DisplayApp (display/index.tsx:26)
     displayWindow |-> [exists |-> FALSE, lines |-> <<>>],
     \* the viewer page served by NetworkServer.getViewerHTML
     viewer |-> [open |-> FALSE, server |-> 0, lines |-> <<>>]]

Init ==
    /\ queue = <<>>
    /\ timer = 0
    /\ pending = {}
    /\ settings = [mode |-> "sentence", wpm |-> DefaultWpm,
                   sentenceDelay |-> DefaultSentenceDelay]
    /\ isRunning = FALSE
    /\ emitted = <<>>
    /\ nextId = 1
    /\ accepted = <<>>
    /\ discarded = {}
    /\ stopped = FALSE
    /\ main = Main(DefaultMaxSegments)

\* handlers.ts: the STT result handler builds the segment, stores it in the
\* transcript buffer, sends it to the control window and calls enqueue.
EnqueueFrom(texts) ==
    /\ nextId <= MaxSegs
    /\ \E text \in texts :
          LET segment == [id |-> nextId, text |-> text, isFinal |-> TRUE] IN
          /\ main' = [main EXCEPT !.transcriptBuffer = add(@, segment),
                                  !.controlWindow = send(@, segment)]
          /\ SetEngine(enqueue(Engine, settings, segment))
          /\ accepted' = IF settings.mode = "instant" THEN accepted
                          ELSE Append(accepted, segment)
    /\ nextId' = nextId + 1
    /\ stopped' = FALSE
    /\ UNCHANGED <<settings, discarded>>

Enqueue == EnqueueFrom(Texts)

TimerFire ==
    /\ \E t \in pending :
          SetEngine(runCallback([Engine EXCEPT !.pending = @ \ {t}], settings, t.callback))
    /\ UNCHANGED <<settings, nextId, accepted, discarded, stopped, main>>

UpdateSettingsFrom(partials) ==
    /\ \E partial \in partials : settings' = updateSettings(settings, partial)
    /\ UNCHANGED <<queue, timer, pending, isRunning, emitted, nextId, accepted,
                   discarded, stopped, main>>

\* The operator switches the delivery mode while the engine runs.
UpdateSettings == UpdateSettingsFrom(ModePartials)

Stop ==
    /\ SetEngine(stop(Engine))
    /\ stopped' = TRUE
    /\ UNCHANGED <<settings, nextId, accepted, discarded, main>>

Flush ==
    /\ SetEngine(flush(Engine))
    /\ stopped' = FALSE
    /\ UNCHANGED <<settings, nextId, accepted, discarded, main>>

Clear ==
    /\ SetEngine(clear(Engine))
    /\ discarded' = discarded \cup Ids(queue)
    /\ UNCHANGED <<settings, nextId, accepted, stopped, main>>

Next == Enqueue \/ TimerFire \/ UpdateSettings \/ Stop \/ Flush \/ Clear

Spec == Init /\ [][Next]_vars

\* Paced delivery only: enqueue and timer expiries, every setting changing
\* at arbitrary times, the mode staying sentence or streaming.
UpdateSettingsPaced == UpdateSettingsFrom(PacedPartials)

NextFifo == Enqueue \/ TimerFire \/ UpdateSettingsPaced

SpecFifo == Init /\ [][NextFifo]_vars

\* Reconfiguration with unvalidated values while segments are paced.
UpdateSettingsAny == UpdateSettingsFrom(AnyPartials)

\* Two-word results only.
EnqueueTwoWords == EnqueueFrom({<<"a", " ", " ", "b">>})

NextSettings == EnqueueTwoWords \/ TimerFire \/ UpdateSettingsAny

SpecSettings == Init /\ [][NextSettings]_vars

-----------------------------------------------------------------------------
(* Vocabulary of the properties.                                            *)

Range(seq) == {seq[i] : i \in DOMAIN seq}

EmittedIds == [i \in DOMAIN emitted |-> emitted[i].segment.id]

EnqueueOrder == [i \in DOMAIN accepted |-> accepted[i].id]

RECURSIVE Collapse(_)
\* seq with every run of equal neighbours reduced to one element
Collapse(seq) ==
    IF Len(seq) <= 1 THEN seq
    ELSE IF seq[1] = seq[2] THEN Collapse(Tail(seq))
    ELSE <<seq[1]>> \o Collapse(Tail(seq))

WordCount(segment) == Len(SplitWords(segment.text))

\* The accepted segments that are no longer queued, in enqueue order.
Released == SelectSeq(accepted, LAMBDA seg : seg.id \notin Ids(queue))

PositionOf(id) == CHOOSE k \in DOMAIN accepted : accepted[k].id = id

-----------------------------------------------------------------------------
(* C1 - FIFO delivery                                                       *)

\* C1 as stated: under enqueue calls and timer expiries in sentence or
\* streaming mode, the collapsed sequence of delivered segment ids equals the
\* enqueue order of the segments that have left the queue.
C1_DeliveredEqualsEnqueueOrder ==
    Collapse(EmittedIds) = [i \in DOMAIN Released |-> Released[i].id]

\* C1 amended: the collapsed sequence of delivered ids is in enqueue order
\* without repetition, holds only released segments, and holds every released
\* segment that has at least one word (a segment without words popped in
\* streaming mode is delivered to nobody).
C1_DeliveredInEnqueueOrder ==
    LET ids == Collapse(EmittedIds) IN
    /\ Range(ids) \subseteq {Released[k].id : k \in DOMAIN Released}
    /\ \A i, j \in DOMAIN ids : i < j => PositionOf(ids[i]) < PositionOf(ids[j])
    /\ \A k \in DOMAIN Released :
          WordCount(Released[k]) > 0 => Released[k].id \in Range(ids)

\* Three segments delivered in order, one of them word by word.
C1_Witness ==
    /\ Collapse(EmittedIds) = <<1, 2, 3>>
    /\ Len(emitted) > 3
    /\ queue = <<>>
    /\ pending = {}

-----------------------------------------------------------------------------
(* C2 - a segment leaves the engine emitted or discarded                    *)

\* The emissions of the current step.
NewlyEmitted == SubSeq(emitted', Len(emitted) + 1, Len(emitted'))

\* segment was held by the engine and the current step removes it from the queue
LeavesQueue(segment) ==
    /\ segment \in Range(accepted')
    /\ segment.id \in Ids(queue) \/ segment \notin Range(accepted)
    /\ segment.id \notin Ids(queue')

\* C2: every step that takes a segment out of the queue emits it in that
\* step, unless the step is clear() discarding it.  Stated for the segments
\* that have at least one word, which every release algorithm has something
\* to emit for.
C2_LeavesEmittedOrDiscarded ==
    [][\A segment \in Range(accepted') :
          (LeavesQueue(segment) /\ WordCount(segment) > 0)
          => \/ \E i \in DOMAIN NewlyEmitted : NewlyEmitted[i].segment.id = segment.id
             \/ segment.id \in discarded']_vars

-----------------------------------------------------------------------------
(* C3 - flush                                                               *)

\* The engine as the constructor leaves it.
FreshEngine == [queue |-> <<>>, timer |-> 0, pending |-> {}, isRunning |-> FALSE,
                emitted |-> <<>>]

\* What an operation did to an engine, timer handles aside.
Effect(before, after) ==
    [queue |-> after.queue,
     isRunning |-> after.isRunning,
     wakeups |-> {[callback |-> t.callback, delay |-> t.delay] : t \in after.pending},
     emissions |-> SubSeq(after.emitted, Len(before.emitted) + 1, Len(after.emitted))]

\* No segment queued, no wakeup outstanding, not running.
IdleEmpty(st) == st.queue = <<>> /\ st.pending = {} /\ ~st.isRunning

\* enqueue has on the current engine the effect it has on a fresh one.
EnqueueAsOnFresh ==
    \A text \in Texts :
        LET segment == [id |-> nextId, text |-> text, isFinal |-> TRUE] IN
        Effect(Engine, enqueue(Engine, settings, segment))
            = Effect(FreshEngine, enqueue(FreshEngine, settings, segment))

\* C3: flush() leaves no wakeup pending, emits exactly the queued segments in
\* queue order with displayDuration 0, leaves the queue empty and the engine
\* idle; and on an engine that is idle and empty, as flush() leaves it, an
\* enqueue has the effect it has on a fresh engine.
C3_Flush ==
    /\ [][Flush =>
            /\ pending' = {}
            /\ emitted' = emitted \o [i \in DOMAIN queue |->
                                        [segment |-> queue[i], displayDuration |-> Number(0)]]
            /\ IdleEmpty(Engine')]_vars
    /\ [](IdleEmpty(Engine) => EnqueueAsOnFresh)

\* flush() has just released two queued segments while a wakeup was pending.
C3_Witness ==
    /\ Len(emitted) = 3
    /\ emitted[1].displayDuration.int > 0
    /\ \A i \in {2, 3} : /\ emitted[i].displayDuration = Number(0)
                         /\ emitted[i].segment \in Range(accepted)
                         /\ WordCount(emitted[i].segment) > 0
    /\ queue = <<>>
    /\ pending = {}
    /\ timer = 0
    /\ ~isRunning

-----------------------------------------------------------------------------
(* C4 - a burst of enqueues followed by flush, no timer firing              *)

\* enqueue while the burst has not been flushed
EnqueueBurst ==
    /\ nextId = 1 \/ pending # {}
    /\ Enqueue

\* flush() right after the burst
FlushBurst ==
    /\ nextId > 1
    /\ pending # {}
    /\ Flush

InitBurst ==
    /\ Init!1 /\ Init!2 /\ Init!3
    /\ \E w \in Wpms, d \in Delays :
          settings = [mode |-> "sentence", wpm |-> w, sentenceDelay |-> d]
    /\ isRunning = FALSE
    /\ emitted = <<>>
    /\ nextId = 1
    /\ accepted = <<>>
    /\ discarded = {}
    /\ stopped = FALSE
    /\ main = Main(DefaultMaxSegments)

NextBurst == EnqueueBurst \/ FlushBurst

SpecBurst == InitBurst /\ [][NextBurst]_vars

\* In SpecBurst a sentence-mode enqueue always leaves a wakeup pending, so
\* the states after the flush are those with segments enqueued and none pending.
BurstFlushed == nextId > 1 /\ pending = {}

-----------------------------------------------------------------------------
(* C5 - stop keeps the queue                                                *)

-----------------------------------------------------------------------------
(* C6 - stop loses no data                                                  *)

\* The engine still owes words of the segment: it is queued, or a pending
\* wakeup holds words of it that have not been emitted.
Held(segment) ==
    \/ segment.id \in Ids(queue)
    \/ \E t \in pending : /\ t.callback.kind = "emitWordsSequentially"
                          /\ t.callback.originalSegment.id = segment.id
                          /\ t.callback.index < Len(t.callback.words)

\* C6: every segment the engine holds when stop() is called is in the queue
\* after stop(), so that draining can deliver it in full.
C6_StopLosesNothing ==
    [][Stop => \A segment \in Range(accepted) :
                  Held(segment) => segment.id \in Ids(queue')]_vars

-----------------------------------------------------------------------------
(* C7 - clear discards                                                      *)

\* C7: clear() leaves no wakeup pending, an empty queue and an idle engine and
\* emits nothing, and no step ever emits a segment that clear() discarded.
C7_ClearDiscards ==
    [][/\ Clear => /\ pending' = {}
                   /\ queue' = <<>>
                   /\ ~isRunning'
                   /\ emitted' = emitted
       /\ \A i \in DOMAIN NewlyEmitted :
             NewlyEmitted[i].segment.id \notin discarded']_vars

\* A queued segment was discarded and a later segment has been emitted since.
C7_Witness ==
    /\ 2 \in discarded
    /\ Len(emitted) = 2
    /\ emitted[2].segment.id = 3

-----------------------------------------------------------------------------
(* C8 - cancellation                                                        *)

\* C8: flush(), stop() and clear() each cancel at most one wakeup and leave
\* none outstanding, so nothing that was pending at the call can fire, emit
\* or pop afterwards.
C8_CancelledNeverFires ==
    [][(Stop \/ Flush \/ Clear) =>
          /\ pending' = {}
          /\ Cardinality(pending) <= 1]_vars

\* A wakeup was scheduled and then cancelled with a segment still queued.
C8_Witness ==
    /\ timer = 0
    /\ pending = {}
    /\ Len(emitted) = 1
    /\ Len(queue) = 1
    /\ ~isRunning

-----------------------------------------------------------------------------
(* C9 - a single outstanding wakeup                                         *)

\* C9: at most one wakeup is outstanding, and a step schedules one only as an
\* enqueue on an idle engine with none pending or as the expiry of the
\* previous one.
C9_SingleWakeup ==
    [][/\ Cardinality(pending') <= 1
       /\ pending' \ pending # {} =>
             \/ Enqueue /\ ~isRunning /\ pending = {}
             \/ TimerFire /\ Cardinality(pending) = 1]_vars

\* A wakeup is pending with a segment waiting behind it after an earlier
\* wakeup has expired.
C9_Witness ==
    /\ Cardinality(pending) = 1
    /\ Len(queue) = 1
    /\ Len(emitted) = 2
    /\ isRunning

-----------------------------------------------------------------------------
(* C10 - isRunning                                                          *)

\* C10: between operations isRunning is true exactly when a wakeup is pending.
C10_RunningIffPending == isRunning <=> pending # {}

-----------------------------------------------------------------------------
(* C11 - enqueue in instant mode                                            *)

-----------------------------------------------------------------------------
(* C12 - enqueue in instant mode changes no engine state                    *)

\* C12: an enqueue call made while the mode is instant leaves the queue, the
\* outstanding wakeups, the stored timer handle, isRunning and the settings
\* as they were, whatever is queued or being drained.
C12_InstantEnqueueFrame ==
    [][(Enqueue /\ settings.mode = "instant") =>
          /\ queue' = queue
          /\ pending' = pending
          /\ timer' = timer
          /\ isRunning' = isRunning
          /\ settings' = settings]_vars

\* A segment was emitted by an instant enqueue while an earlier segment waits
\* in the queue behind a pending wakeup.
C12_Witness ==
    /\ settings.mode = "instant"
    /\ Len(queue) = 1
    /\ Cardinality(pending) = 1
    /\ isRunning
    /\ Len(emitted) = 2
    /\ emitted[2].segment.id = nextId - 1
    /\ emitted[2].segment.id \notin Ids(accepted)
    /\ emitted[2].displayDuration = Number(0)

-----------------------------------------------------------------------------
(* C13 - the sentence-mode duration                                         *)

EnqueueSentence == EnqueueFrom(SentenceTexts)

\* Those that change wpm or sentenceDelay only.
NumericPartials == {p \in PacedPartials : "mode" \notin DOMAIN p}

UpdateSettingsNumeric == UpdateSettingsFrom(NumericPartials)

NextSentence == EnqueueSentence \/ TimerFire \/ UpdateSettingsNumeric

\* Sentence mode throughout, wpm and sentenceDelay changing at arbitrary times.
SpecSentence == InitBurst /\ [][NextSentence]_vars

\* (wordCount * 60000) / wpm + sentenceDelay, a whole number for the settings
\* of the model, at the settings of the current step.
ExactDuration(segment) ==
    (WordCount(segment) * 60000) \div settings.wpm + settings.sentenceDelay

\* The number d is the whole number n up to an error below 2^-20.
Near(d, n) ==
    \/ d = Number(n)
    \/ d.int = n /\ Len(d.frac) > 20 /\ \A i \in 1..20 : d.frac[i] = 0
    \/ d.int = n - 1 /\ Len(d.frac) > 20 /\ \A i \in 1..20 : d.frac[i] = 1

\* C13 as stated: every sentence-mode emission has the displayDuration
\* (wordCount * 60000) / wpm + sentenceDelay, with the wpm and sentenceDelay
\* in effect at the pop.
C13_DurationIsExactQuotient ==
    [][settings.mode = "sentence" =>
          \A i \in DOMAIN NewlyEmitted :
              NewlyEmitted[i].displayDuration
                 = Number(ExactDuration(NewlyEmitted[i].segment))]_vars

\* C13 amended: every sentence-mode emission has as displayDuration the
\* binary64 result of ((wordCount / wpm) * 60 * 1000) + sentenceDelay at the
\* wpm and sentenceDelay in effect at the pop; it is
\* (wordCount * 60000) / wpm + sentenceDelay up to an error below 2^-20,
\* exactly 4500 for 10 words at wpm 150 with delay 500 and exactly
\* sentenceDelay for a segment without words.
C13_DurationIsRoundedQuotient ==
    [][settings.mode = "sentence" =>
          \A i \in DOMAIN NewlyEmitted :
              LET d == NewlyEmitted[i].displayDuration
                  wordCount == WordCount(NewlyEmitted[i].segment)
              IN  /\ d = NumberOf(FloatPlus(
                                     FloatTimes(
                                        FloatTimes(FloatDivide(wordCount, settings.wpm),
                                                   60),
                                        1000),
                                     settings.sentenceDelay))
                  /\ Near(d, ExactDuration(NewlyEmitted[i].segment))
                  /\ (wordCount = 10 /\ settings.wpm = 150
                         /\ settings.sentenceDelay = 500) => d = Number(4500)
                  /\ wordCount = 0 => d = Number(settings.sentenceDelay)]_vars

\* Ten words emitted with 4500, then seven words with a duration that is not
\* a whole number, then no word with the delay alone.
C13_Witness ==
    /\ Len(emitted) = 3
    /\ WordCount(emitted[1].segment) = 10
    /\ emitted[1].displayDuration = Number(4500)
    /\ WordCount(emitted[2].segment) = 7
    /\ emitted[2].displayDuration.frac # <<>>
    /\ WordCount(emitted[3].segment) = 0
    /\ emitted[3].displayDuration = Number(settings.sentenceDelay)

-----------------------------------------------------------------------------
(* C14 - streaming: one emission per word                                   *)

InitStream ==
    /\ Init!1 /\ Init!2 /\ Init!3
    /\ \E w \in StreamWpms :
          settings = [mode |-> "streaming", wpm |-> w,
                      sentenceDelay |-> DefaultSentenceDelay]
    /\ isRunning = FALSE
    /\ emitted = <<>>
    /\ nextId = 1
    /\ accepted = <<>>
    /\ discarded = {}
    /\ stopped = FALSE
    /\ main = Main(DefaultMaxSegments)

EnqueueStream == EnqueueFrom(StreamTexts)

UpdateSettingsRate == UpdateSettingsFrom({[wpm |-> w] : w \in StreamWpms})

NextStream == EnqueueStream \/ TimerFire \/ UpdateSettingsRate

\* Streaming mode throughout, wpm changing at arbitrary times.
SpecStream == InitStream /\ [][NextStream]_vars

\* The segments of the emissions that carry the id, in emission order.
EmittedOf(id) ==
    LET of == SelectSeq(emitted, LAMBDA paced : paced.segment.id = id)
    IN  [i \in DOMAIN of |-> of[i].segment]

\* How many words of the released segment have had their turn: the index
\* held by the pending wakeup that works on it, all of them when there is none.
Progress(segment) ==
    IF \E t \in pending : /\ t.callback.kind = "emitWordsSequentially"
                          /\ t.callback.originalSegment.id = segment.id
    THEN (CHOOSE t \in pending : t.callback.originalSegment.id = segment.id).callback.index
    ELSE WordCount(segment)

\* The released segment has been emitted word by word as far as it has got:
\* the i-th emission carries the first i words joined by single spaces, the
\* id of the segment, and isFinal exactly on the last word.
EmittedWordByWord(segment) ==
    LET words == SplitWords(segment.text) IN
    EmittedOf(segment.id)
       = [i \in 1..Progress(segment) |->
             [id |-> segment.id,
              text |-> JoinWords(SubSeq(words, 1, i)),
              isFinal |-> i = Len(words)]]

AllEmittedWordByWord ==
    \A k \in DOMAIN Released : EmittedWordByWord(Released[k])

\* C14 as stated: in streaming mode a segment of k >= 1 words produces k
\* emissions, the i-th with the first i words, the id of the segment and
\* isFinal exactly on the last, each with displayDuration 60000 / wpm.
C14_WordByWordAtQuotient ==
    /\ []AllEmittedWordByWord
    /\ [][\A i \in DOMAIN NewlyEmitted :
             NewlyEmitted[i].displayDuration
                = NumberOf(FloatDivide(60000, settings.wpm))]_vars

\* C14 amended: as stated, with displayDuration the binary64 result of
\* (60 / wpm) * 1000 at the wpm in effect when the word is emitted, which is
\* 60000 / wpm whenever that is a whole number (400 at wpm 150) and agrees
\* with it to 20 binary digits below the point otherwise.
C14_WordByWordAtInterval ==
    /\ []AllEmittedWordByWord
    /\ [][\A i \in DOMAIN NewlyEmitted :
             LET d == NewlyEmitted[i].displayDuration
                 q == NumberOf(FloatDivide(60000, settings.wpm))
             IN  /\ d = NumberOf(FloatTimes(FloatDivide(60, settings.wpm), 1000))
                 /\ d.int = q.int
                 /\ SubSeq(d.frac \o [j \in 1..20 |-> 0], 1, 20)
                       = SubSeq(q.frac \o [j \in 1..20 |-> 0], 1, 20)
                 /\ 60000 % settings.wpm = 0 => d = Number(60000 \div settings.wpm)
                 /\ settings.wpm = 150 => d = Number(400)]_vars

\* A three-word segment has been emitted in three emissions with one id, the
\* first at wpm 150 with 400, the last at another wpm with a duration that
\* is not a whole number, and nothing is left to do.
C14_Witness ==
    /\ Len(emitted) = 3
    /\ EmittedOf(1) = <<[id |-> 1, text |-> <<"a">>, isFinal |-> FALSE],
                        [id |-> 1, text |-> <<"a", " ", "b">>, isFinal |-> FALSE],
                        [id |-> 1, text |-> <<"a", " ", "b", " ", "c">>,
                         isFinal |-> TRUE]>>
    /\ emitted[1].displayDuration = Number(400)
    /\ emitted[3].displayDuration.frac # <<>>
    /\ pending = {}
    /\ ~isRunning

-----------------------------------------------------------------------------
(* C15 - streaming: after the last word of a segment                        *)

\* C15 as stated: a step whose last emission is the last word of a segment
\* has gone on to the next segment, so it ends with the queue empty, no wakeup
\* pending and the engine idle.
C15_NoWakeupAfterLastWord ==
    [][(NewlyEmitted # <<>> /\ NewlyEmitted[Len(NewlyEmitted)].segment.isFinal)
          => /\ queue' = <<>>
             /\ pending' = {}
             /\ ~isRunning']_vars

\* The wakeup t was scheduled after the last word of its segment.
AfterLastWord(t) ==
    /\ t.callback.kind = "emitWordsSequentially"
    /\ t.callback.index = Len(t.callback.words)

\* The first queued segment that has a word is at position j.
FirstWorded(j) ==
    /\ j \in DOMAIN queue
    /\ WordCount(queue[j]) > 0
    /\ \A i \in 1..(j - 1) : WordCount(queue[i]) = 0

\* C15 amended: every word emission, the last word of a segment included, is
\* the only emission of its step and schedules one wakeup after the word
\* interval; the engine goes on from the last word when that wakeup expires:
\* in that step it emits the first word of the next queued segment that has
\* words, or, when there is none, it empties the queue and returns to idle.
C15_WakeupAfterEveryWord ==
    [][/\ NewlyEmitted # <<>> =>
            /\ Len(NewlyEmitted) = 1
            /\ \E t \in pending' :
                  /\ pending' = {t}
                  /\ t.delay = NewlyEmitted[1].displayDuration
                  /\ t.callback.kind = "emitWordsSequentially"
                  /\ t.callback.originalSegment.id = NewlyEmitted[1].segment.id
                  /\ NewlyEmitted[1].segment.isFinal <=> AfterLastWord(t)
       /\ \A t \in pending :
             (AfterLastWord(t) /\ pending' # pending) =>
                 IF \E j \in DOMAIN queue : FirstWorded(j)
                 THEN LET j == CHOOSE i \in DOMAIN queue : FirstWorded(i)
                          words == SplitWords(queue[j].text)
                      IN  /\ Len(NewlyEmitted) = 1
                          /\ NewlyEmitted[1].segment
                                = [queue[j] EXCEPT !.text = words[1],
                                                   !.isFinal = (Len(words) = 1)]
                          /\ queue' = SubSeq(queue, j + 1, Len(queue))
                          /\ isRunning'
                 ELSE /\ NewlyEmitted = <<>>
                      /\ queue' = <<>>
                      /\ pending' = {}
                      /\ ~isRunning']_vars

\* The last word of the first segment has been emitted, the wakeup scheduled
\* after it is pending and the second segment waits in the queue.
C15_Witness ==
    /\ \E t \in pending : AfterLastWord(t) /\ t.callback.originalSegment.id = 1
    /\ emitted # <<>>
    /\ emitted[Len(emitted)].segment.isFinal
    /\ emitted[Len(emitted)].segment.id = 1
    /\ Len(queue) = 1
    /\ WordCount(queue[1]) > 0
    /\ isRunning

-----------------------------------------------------------------------------
(* C16 - wpm or sentenceDelay changed while a sentence waits                *)

\* C16: a change of wpm or sentenceDelay changes neither the emissions made
\* nor the pending wakeup, whose delay stays the displayDuration of the
\* segment it was scheduled for; the segment popped when that wakeup expires
\* is emitted with, and its wakeup scheduled after, the duration for the wpm
\* and sentenceDelay in effect at that expiry.
C16_NewValuesForNextSegment ==
    /\ [][/\ settings' # settings => (emitted' = emitted /\ pending' = pending)
          /\ SubSeq(emitted', 1, Len(emitted)) = emitted
          /\ (pending' # pending /\ queue # <<>>) =>
                /\ Len(NewlyEmitted) = 1
                /\ NewlyEmitted[1].segment = Head(queue)
                /\ Near(NewlyEmitted[1].displayDuration, ExactDuration(Head(queue)))
                /\ \E t \in pending' : pending' = {t}]_vars
    /\ [](\A t \in pending : t.delay = emitted[Len(emitted)].displayDuration)

\* Two segments of ten words: the first emitted with 4500 at wpm 150 and
\* delay 500, the second, popped after wpm was changed to 300, with 2500.
C16_Witness ==
    /\ Len(emitted) = 2
    /\ WordCount(emitted[1].segment) = 10
    /\ emitted[1].displayDuration = Number(4500)
    /\ WordCount(emitted[2].segment) = 10
    /\ emitted[2].displayDuration = Number(2500)
    /\ \E t \in pending : t.delay = Number(2500)

-----------------------------------------------------------------------------
(* C17 - the mode is read when a segment is popped                          *)

\* The emission paced releases the popped segment, or its first word, by the
\* algorithm of the mode.
ReleasedBy(mode, segment, paced) ==
    LET words == SplitWords(segment.text) IN
    CASE mode = "sentence" ->
            /\ paced.segment = segment
            /\ Near(paced.displayDuration, ExactDuration(segment))
      [] mode = "streaming" ->
            /\ paced.segment = [segment EXCEPT !.text = words[1],
                                               !.isFinal = (Len(words) = 1)]
            /\ paced.displayDuration = Number(60000 \div settings.wpm)
      [] mode = "instant" ->
            /\ paced.segment = segment
            /\ paced.displayDuration = Number(0)

\* C17: a segment with words that a drain step (of an enqueue call or of a
\* wakeup) pops is released in that step by the algorithm of the mode in
\* effect at the step; and a wakeup that holds further words of a streaming
\* segment emits the next word when it expires, whatever the mode is then.
C17_ReleasedByModeAtPop ==
    [][(Enqueue \/ TimerFire) =>
          /\ \A segment \in Range(accepted') :
                (LeavesQueue(segment) /\ WordCount(segment) > 0) =>
                    /\ NewlyEmitted # <<>>
                    /\ ReleasedBy(settings.mode, segment, NewlyEmitted[Len(NewlyEmitted)])
          /\ \A t \in pending \ pending' :
                (t.callback.kind = "emitWordsSequentially"
                    /\ t.callback.index < Len(t.callback.words)) =>
                   /\ Len(NewlyEmitted) = 1
                   /\ NewlyEmitted[1].segment
                         = [t.callback.originalSegment EXCEPT
                               !.text = JoinWords(SubSeq(t.callback.words, 1,
                                                         t.callback.index + 1)),
                               !.isFinal = (t.callback.index + 1
                                               = Len(t.callback.words))]]_vars

-----------------------------------------------------------------------------
(* C18 - sentence mode: the last queued segment                             *)

\* C18 as stated: a sentence-mode step that emits a segment and leaves the
\* queue empty leaves the engine idle, with no wakeup pending.
C18_IdleAfterLastSegment ==
    [][(settings.mode = "sentence" /\ NewlyEmitted # <<>> /\ queue' = <<>>)
          => (~isRunning' /\ pending' = {})]_vars

\* C18 amended: a sentence-mode step that emits a segment, the last queued
\* one included, leaves isRunning true and one wakeup pending, to call
\* processNext after the segment's displayDuration; when a wakeup expires
\* with the queue empty the step emits nothing and leaves the engine idle
\* with no wakeup pending.
C18_IdleWhenLastWakeupExpires ==
    [][/\ (settings.mode = "sentence" /\ NewlyEmitted # <<>>) =>
             /\ isRunning'
             /\ pending' = {[id |-> timer', callback |-> ProcessNextCallback,
                             delay |-> NewlyEmitted[1].displayDuration]}
       /\ (TimerFire /\ queue = <<>>) =>
             /\ NewlyEmitted = <<>>
             /\ queue' = <<>>
             /\ ~isRunning'
             /\ pending' = {}]_vars

\* The second and last queued segment has been emitted: the queue is empty,
\* its wakeup is pending and the engine is running.
C18_Witness ==
    /\ settings.mode = "sentence"
    /\ EmittedIds = <<1, 2>>
    /\ Len(accepted) = 2
    /\ queue = <<>>
    /\ Cardinality(pending) = 1
    /\ isRunning

-----------------------------------------------------------------------------
(* C19 - streaming: a segment without words                                 *)

\* C19: a segment without words that a streaming-mode step pops is emitted
\* by no emission of the step and no wakeup is scheduled for it; the step
\* goes on to the next queued segment: it ends with a word of a later segment
\* emitted and the wakeup of that segment pending, or with the queue empty and
\* the engine idle.  No step ends with isRunning true and no wakeup pending.
C19_WordlessSegmentSkipped ==
    /\ [][settings.mode = "streaming" =>
             \A segment \in Range(accepted') :
                 (LeavesQueue(segment) /\ WordCount(segment) = 0) =>
                    /\ \A i \in DOMAIN NewlyEmitted :
                          NewlyEmitted[i].segment.id # segment.id
                    /\ \A t \in pending' :
                          t.callback.originalSegment.id # segment.id
                    /\ IF NewlyEmitted # <<>>
                       THEN /\ isRunning'
                            /\ \E t \in pending' :
                                  /\ pending' = {t}
                                  /\ t.callback.originalSegment.id
                                        = NewlyEmitted[1].segment.id
                                  /\ segment.id < NewlyEmitted[1].segment.id
                       ELSE /\ queue' = <<>>
                            /\ ~isRunning'
                            /\ pending' = {}]_vars
    /\ [](isRunning => pending # {})

\* The second segment, without words, was popped and skipped in the step
\* that emitted the first word of the third.
C19_Witness ==
    /\ settings.mode = "streaming"
    /\ Len(accepted) = 3
    /\ WordCount(accepted[1]) > 0
    /\ WordCount(accepted[2]) = 0
    /\ queue = <<>>
    /\ Collapse(EmittedIds) = <<1, 3>>
    /\ \E t \in pending : t.callback.originalSegment.id = 3

-----------------------------------------------------------------------------
(* C20 - enqueue in sentence or streaming mode                              *)

\* C20: an enqueue call in sentence or streaming mode appends the segment at
\* the tail of the queue.  On a running engine that is all: nothing is
\* emitted, no wakeup changes, and the queue is the old one followed by the
\* segment.  On an idle engine the head of the extended queue is popped within
\* the call: in sentence mode it is emitted whole and the rest stays queued; in
\* streaming mode, when it has words, its first word is emitted and the rest
\* stays queued, and in both cases the engine is running after the call; the
\* segments left in the queue are always a tail of the extended queue.
C20_EnqueueAppends ==
    [][(Enqueue /\ settings.mode # "instant") =>
          LET extended == Append(queue, accepted'[Len(accepted')]) IN
          /\ accepted' = Append(accepted, accepted'[Len(accepted')])
          /\ accepted'[Len(accepted')].id = nextId
          /\ IF isRunning
             THEN /\ NewlyEmitted = <<>>
                  /\ queue' = extended
                  /\ pending' = pending
                  /\ isRunning'
             ELSE /\ Head(extended).id \notin Ids(queue')
                  /\ \E n \in 1..Len(extended) :
                        queue' = SubSeq(extended, n + 1, Len(extended))
                  /\ settings.mode = "sentence" =>
                        /\ Len(NewlyEmitted) = 1
                        /\ ReleasedBy("sentence", Head(extended), NewlyEmitted[1])
                        /\ queue' = Tail(extended)
                        /\ isRunning'
                  /\ (settings.mode = "streaming" /\ WordCount(Head(extended)) > 0) =>
                        /\ Len(NewlyEmitted) = 1
                        /\ ReleasedBy("streaming", Head(extended), NewlyEmitted[1])
                        /\ queue' = Tail(extended)
                        /\ isRunning']_vars

\* The first segment was emitted within its enqueue call, on an idle engine;
\* the second and the third, enqueued while it is displayed, wait in order.
C20_Witness ==
    /\ settings.mode # "instant"
    /\ nextId = 4
    /\ EmittedIds = <<1>>
    /\ [i \in DOMAIN queue |-> queue[i].id] = <<2, 3>>
    /\ accepted = <<emitted[1].segment>> \o queue
    /\ Cardinality(pending) = 1
    /\ isRunning

-----------------------------------------------------------------------------
(* C21 - draining resumes after stop                                        *)

-----------------------------------------------------------------------------
(* C22 - idle with a non-empty queue                                        *)

\* isRunning is false and segments are queued.
Paused == ~isRunning /\ queue # <<>>

\* C22: a step that ends with isRunning false and a non-empty queue, and did
\* not start so, is stop(); every other step that turns isRunning from true
\* to false (a drain step that finds the queue empty, flush(), clear())
\* leaves the queue empty.
C22_PausedOnlyByStop ==
    [][/\ (Paused' /\ ~Paused) => Stop
       /\ (isRunning /\ ~isRunning' /\ ~Stop) =>
             /\ queue' = <<>>
             /\ TimerFire \/ Flush \/ Clear]_vars

\* stop() has halted a drain with two segments queued.
C22_Witness ==
    /\ stopped
    /\ ~isRunning
    /\ Len(queue) = 2
    /\ Len(emitted) = 1

-----------------------------------------------------------------------------
(* C23 - updateSettings                                                     *)

\* C23: an updateSettings call with a partial object leaves the settings equal
\* to the old ones with exactly the fields of that object replaced by its
\* values, whatever they are: a wpm that is zero or negative becomes the
\* active wpm.  It emits nothing and leaves the queue, the timer handle, the
\* pending wakeups and isRunning as they were.
C23_UpdateSettingsMerges ==
    [][UpdateSettingsAny =>
          /\ \A partial \in AnyPartials :
                UpdateSettingsFrom({partial}) =>
                   /\ DOMAIN settings' = DOMAIN settings
                   /\ \A f \in DOMAIN partial : settings'[f] = partial[f]
                   /\ \A f \in DOMAIN settings \ DOMAIN partial : settings'[f] = settings[f]
          /\ emitted' = emitted
          /\ queue' = queue
          /\ timer' = timer
          /\ pending' = pending
          /\ isRunning' = isRunning]_vars

\* A wpm of zero was set while a segment was displayed and another waited:
\* the waiting segment has been emitted with the duration that wpm gives.
C23_Witness ==
    /\ settings.wpm = 0
    /\ settings.mode = "sentence"
    /\ Len(emitted) = 2
    /\ emitted[1].displayDuration.int = 1300
    /\ emitted[2].displayDuration = Infinity
    /\ Len(queue) = 1
    /\ \E t \in pending : t.delay = Infinity

-----------------------------------------------------------------------------
(* C24 - flush and clear on an idle, empty engine                           *)

\* C24: flush() or clear() on an engine that is idle with an empty queue and
\* no wakeup pending emits nothing and leaves the queue empty, no wakeup
\* pending and isRunning false; and in every state a second flush() (or
\* clear()) right after the first changes nothing and emits nothing: the
\* engine after two calls is the engine after one.
C24_IdleFlushClearNoOp ==
    /\ [][((Flush \/ Clear) /\ IdleEmpty(Engine)) =>
             /\ emitted' = emitted
             /\ queue' = queue
             /\ pending' = pending
             /\ isRunning' = isRunning]_vars
    /\ [](/\ flush(flush(Engine)) = flush(Engine)
          /\ clear(clear(Engine)) = clear(Engine)
          /\ IdleEmpty(flush(Engine))
          /\ IdleEmpty(clear(Engine)))

\* Both words of a streaming segment were emitted, the last wakeup expired
\* and flush() or clear() was called on the idle engine: only the stale timer
\* handle is gone.
C24_Witness ==
    /\ IdleEmpty(Engine)
    /\ timer = 0
    /\ ~stopped
    /\ nextId = 2
    /\ Len(emitted) = 2
    /\ emitted[2].segment.isFinal
    /\ WordCount(emitted[2].segment) = 2

-----------------------------------------------------------------------------
(* C25 - cancelling a wakeup that has already fired                         *)

\* The stored handle names a timer that has fired: it is not null and no
\* outstanding timer has it.
StaleHandle == timer # 0 /\ timer \notin TimerIds(Engine)

-----------------------------------------------------------------------------
(* C26 - the transcript buffer                                              *)

\* Capacities of the transcript buffer: one, two and the default.
Capacities == {1, 2, DefaultMaxSegments}

InitBuffer ==
    /\ Init!1 /\ Init!2 /\ Init!3 /\ Init!4 /\ Init!5
    /\ Init!6 /\ Init!7 /\ Init!8 /\ Init!9 /\ Init!10
    /\ \E maxSegments \in Capacities : main = Main(maxSegments)

\* transcriptBuffer.clear()
ClearTranscript ==
    /\ main' = [main EXCEPT !.transcriptBuffer = clearSegments(@)]
    /\ UNCHANGED <<queue, timer, pending, settings, isRunning, emitted, nextId,
                   accepted, discarded, stopped>>

NextBuffer ==
    \/ EnqueueTwoWords \/ ClearTranscript
    \/ TimerFire \/ UpdateSettings \/ Stop \/ Flush \/ Clear

SpecBuffer == InitBuffer /\ [][NextBuffer]_vars

\* The last n elements of seq, all of them when it has no more than n.
LastOf(seq, n) ==
    IF Len(seq) > n THEN SubSeq(seq, Len(seq) - n + 1, Len(seq)) ELSE seq

\* C26: the transcript buffer never holds more than maxSegments segments, and
\* those it holds are the results that arrived last, in arrival order; an add
\* call leaves the last maxSegments of the old content followed by the new
\* segment; clear() leaves it empty; timer expiries and the engine's
\* updateSettings, stop, flush and clear leave it as it is.
C26_BufferKeepsMostRecent ==
    /\ [](LET buffer == main.transcriptBuffer IN
          /\ Len(buffer.segments) <= buffer.maxSegments
          /\ \A i \in DOMAIN buffer.segments :
                buffer.segments[i].id = nextId - 1 - Len(buffer.segments) + i)
    /\ [][LET buffer == main.transcriptBuffer IN
          /\ EnqueueTwoWords =>
                \E text \in Texts :
                   main'.transcriptBuffer.segments
                      = LastOf(Append(buffer.segments,
                                      [id |-> nextId, text |-> text, isFinal |-> TRUE]),
                               buffer.maxSegments)
          /\ ClearTranscript => main'.transcriptBuffer.segments = <<>>
          /\ (TimerFire \/ UpdateSettings \/ Stop \/ Flush \/ Clear) =>
                main'.transcriptBuffer = buffer
          /\ main'.transcriptBuffer.maxSegments = buffer.maxSegments]_vars

\* A buffer of capacity two after three results: the first was evicted.
C26_Witness ==
    /\ main.transcriptBuffer.maxSegments = 2
    /\ [i \in DOMAIN main.transcriptBuffer.segments |->
           main.transcriptBuffer.segments[i].id] = <<2, 3>>
    /\ nextId = 4

-----------------------------------------------------------------------------
(* C27 - the result handler serves the operator before pacing               *)

\* The operator closes the control window: controlWindow.on('closed').
CloseControlWindow ==
    /\ ~main.controlWindow.isDestroyed
    /\ main' = [main EXCEPT !.controlWindow.isDestroyed = TRUE]
    /\ UNCHANGED <<queue, timer, pending, settings, isRunning, emitted, nextId,
                   accepted, discarded, stopped>>

\* app.on('activate') with no window left: createControlWindow()
CreateControlWindow ==
    /\ main.controlWindow.isDestroyed
    /\ main' = [main EXCEPT !.controlWindow = Main(DefaultMaxSegments).controlWindow]
    /\ UNCHANGED <<queue, timer, pending, settings, isRunning, emitted, nextId,
                   accepted, discarded, stopped>>

NextResult ==
    \/ EnqueueTwoWords \/ TimerFire \/ UpdateSettings \/ Stop
    \/ CloseControlWindow \/ CreateControlWindow

SpecResult == Init /\ [][NextResult]_vars

\* The segment that the result handler of the current step built.
Handled == main'.transcriptBuffer.segments[Len(main'.transcriptBuffer.segments)]

\* The handler stored the original segment and passed the same segment to
\* enqueue, which emitted it (instant mode) or queued it.
StoredAndPaced ==
    /\ Handled.id = nextId
    /\ Handled.text \in Texts
    /\ Handled.isFinal
    /\ main'.transcriptBuffer.segments = Append(main.transcriptBuffer.segments, Handled)
    /\ IF settings.mode = "instant"
       THEN NewlyEmitted = <<[segment |-> Handled, displayDuration |-> Number(0)]>>
       ELSE accepted' = Append(accepted, Handled)

-----------------------------------------------------------------------------
(* C28 - draining terminates under reconfiguration                          *)

\* Results arrive, the mode is switched at arbitrary times, nobody calls
\* stop, flush or clear, and a timer that stays outstanding fires.
NextLive == Enqueue \/ TimerFire \/ UpdateSettings

SpecLive == Init /\ [][NextLive]_vars /\ WF_vars(TimerFire)

\* C28: every segment with words that enqueue has queued is eventually
\* emitted, and the engine is idle with an empty queue again and again (for
\* good once the last result has been drained), whatever mode switches occur.
C28_EventuallyEmittedAndIdle ==
    /\ \A id \in 1..MaxSegs :
          (\E i \in DOMAIN accepted : accepted[i].id = id /\ WordCount(accepted[i]) > 0)
             ~> (id \in Range(EmittedIds))
    /\ []<>(~isRunning /\ queue = <<>>)

-----------------------------------------------------------------------------
(* C29 - flush delivers every segment in full                               *)

\* Some emission carries every word of the segment.
DeliveredInFull(segment, emissions) ==
    \E i \in DOMAIN emissions :
       /\ emissions[i].segment.id = segment.id
       /\ SplitWords(emissions[i].segment.text) = SplitWords(segment.text)

\* C29: when flush() returns, every segment with words that enqueue had
\* accepted and clear() has not discarded has an emission that carries all
\* its words, a segment whose words were being streamed included.
C29_FlushDeliversInFull ==
    [][Flush => \A segment \in Range(accepted) :
                   (WordCount(segment) > 0 /\ segment.id \notin discarded)
                      => DeliveredInFull(segment, emitted')]_vars

-----------------------------------------------------------------------------
(* C30 - sentence mode: one emission per wakeup                             *)

\* Sentence mode with wpm and sentenceDelay changing, stop() and flush().
NextSentenceControl ==
    EnqueueSentence \/ TimerFire \/ UpdateSettingsNumeric \/ Stop \/ Flush

SpecSentenceControl == InitBurst /\ [][NextSentenceControl]_vars

\* C30: in sentence mode a step that emits by draining (an enqueue call or a
\* wakeup) emits one segment and leaves exactly one wakeup pending, whose
\* delay is the displayDuration of that emission; while a wakeup is pending,
\* only its expiry or flush() emits; with none pending, only flush() or an
\* enqueue on an engine that is idle and empty or was stopped.
C30_WakeupAfterDisplayDuration ==
    [][/\ ((EnqueueSentence \/ TimerFire) /\ NewlyEmitted # <<>>) =>
             /\ Len(NewlyEmitted) = 1
             /\ pending' = {[id |-> timer', callback |-> ProcessNextCallback,
                             delay |-> NewlyEmitted[1].displayDuration]}
       /\ (pending # {} /\ NewlyEmitted # <<>>) =>
             \/ TimerFire /\ pending \cap pending' = {}
             \/ Flush
       /\ (pending = {} /\ NewlyEmitted # <<>>) =>
             \/ EnqueueSentence /\ (stopped \/ queue = <<>>)
             \/ Flush]_vars

\* The second segment, of seven words, was emitted by the first wakeup; its
\* wakeup is pending with the same delay, not a whole number of
\* milliseconds, and a third segment waits.
C30_Witness ==
    /\ Len(emitted) = 2
    /\ WordCount(emitted[2].segment) = 7
    /\ emitted[2].displayDuration.frac # <<>>
    /\ pending = {[id |-> timer, callback |-> ProcessNextCallback,
                   delay |-> emitted[2].displayDuration]}
    /\ Len(queue) = 1
    /\ ~stopped

-----------------------------------------------------------------------------
(* C31 - streaming: the wpm in effect at each word                          *)

\* The one wakeup pending after the step has the delay d.
WakeupAfter(d) == \E t \in pending' : pending' = {t} /\ t.delay = d

\* C31 as stated: every word emission has as displayDuration, and the wakeup
\* scheduled after it as delay, the number 60000 / wpm for the wpm in effect
\* at the step.
C31_WordAtQuotientOfCurrentWpm ==
    [][\A i \in DOMAIN NewlyEmitted :
          /\ NewlyEmitted[i].displayDuration
                = NumberOf(FloatDivide(60000, settings.wpm))
          /\ WakeupAfter(NumberOf(FloatDivide(60000, settings.wpm)))]_vars

\* C31 amended: every word emission has as displayDuration, and the wakeup
\* scheduled after it as delay, the binary64 result of (60 / wpm) * 1000 for
\* the wpm in effect at the step, also when the wpm was different at the
\* previous word of the same segment; that number is 60000 / wpm when wpm
\* divides 60000.
C31_WordAtIntervalOfCurrentWpm ==
    [][\A i \in DOMAIN NewlyEmitted :
          LET d == NumberOf(FloatTimes(FloatDivide(60, settings.wpm), 1000)) IN
          /\ NewlyEmitted[i].displayDuration = d
          /\ WakeupAfter(d)
          /\ 60000 % settings.wpm = 0 => d = Number(60000 \div settings.wpm)]_vars

\* The wpm was changed between the first and the second word of a segment:
\* the first word has 400, the second the interval of wpm 151, and the wakeup
\* for the third word is pending with that delay.
C31_Witness ==
    /\ Len(emitted) = 2
    /\ emitted[1].segment.id = emitted[2].segment.id
    /\ emitted[1].displayDuration = Number(400)
    /\ settings.wpm = DefaultWpm + 1
    /\ emitted[2].displayDuration = IntervalMs[DefaultWpm + 1]
    /\ emitted[2].displayDuration # emitted[1].displayDuration
    /\ \E t \in pending : /\ t.delay = emitted[2].displayDuration
                          /\ t.callback.index = 2
                          /\ Len(t.callback.words) = 3

-----------------------------------------------------------------------------
(* Audio capture (AudioProcessor.ts, AudioCaptureManager.ts)                *)

WAV_HEADER_SIZE == 44

\* A chunk of a recording stream: the stream, whether it is the first chunk
\* of the stream, which begins with the WAV header, and its length in bytes.
Chunk(stream, header, length) ==
    [stream |-> stream, header |-> header, length |-> length]

\* What calculateLevel measured: the bytes of the chunk from offset on, as
\* samples 16-bit samples. "return 0" measures nothing.
Level(offset, samples) == [offset |-> offset, samples |-> samples]

\* AudioProcessor.calculateLevel: the processor afterwards and the level.
calculateLevel(processor, chunk) ==
    IF ~processor.headerStripped /\ chunk.length <= WAV_HEADER_SIZE
    THEN [processor |-> processor, level |-> Level(0, 0)]
    ELSE LET offset == IF processor.headerStripped THEN 0 ELSE WAV_HEADER_SIZE
             samples == (chunk.length - offset) \div 2
         IN  [processor |-> [processor EXCEPT !.headerStripped = TRUE],
              level |-> IF samples <= 0 THEN Level(0, 0) ELSE Level(offset, samples)]

\* AudioProcessor.reset
reset(processor) == [processor EXCEPT !.headerStripped = FALSE]

\* AudioCaptureManager.stop
AudioCaptureManager_stop(capture) ==
    IF capture.recording
    THEN [capture EXCEPT !.recording = FALSE, !._isRecording = FALSE,
                         !.paused = FALSE, !.chunks = 0]
    ELSE capture

\* AudioCaptureManager.start: a recording in progress is stopped, a new
\* recording and its stream are created. The processor is left as it is.
AudioCaptureManager_start(capture) ==
    [AudioCaptureManager_stop(capture) EXCEPT
        !.recording = TRUE, !._isRecording = TRUE, !.paused = FALSE,
        !.stream = @ + 1, !.chunks = 0]

\* AudioCaptureManager.pause / resume
pause(capture) ==
    IF capture.recording /\ capture._isRecording
    THEN [capture EXCEPT !.paused = TRUE] ELSE capture

resume(capture) ==
    IF capture.recording THEN [capture EXCEPT !.paused = FALSE] ELSE capture

\* EventEmitter.on / removeAllListeners
on(capture, event) == [capture EXCEPT !.listeners = Append(@, event)]

removeAllListeners(capture) == [capture EXCEPT !.listeners = <<>>]

\* The number of listeners registered for the event.
listenerCount(capture, event) ==
    Cardinality({i \in DOMAIN capture.listeners : capture.listeners[i] = event})

-----------------------------------------------------------------------------
(* WhisperEngine (STTEngine.ts:55-219)                                      *)

sampleRate == 16000

segmentSeconds == 5

\* WhisperEngine.transcribeBuffer up to its await: the buffered arrays are
\* merged, the buffer is emptied and the merged array is passed to the
\* transcriber.
transcribeBuffer(engine) ==
    IF engine.processing \/ engine.audioBuffer = <<>>
    THEN engine
    ELSE [engine EXCEPT
            !.processing = TRUE,
            !.audioBuffer = <<>>,
            !.totalSamples = 0,
            !.transcriber.calls = Append(@, engine.audioBuffer),
            !.transcriber.running = @ \cup {Len(engine.transcriber.calls) + 1}]

\* WhisperEngine.feedAudio. A Float32Array of the buffer is the record of the
\* chunk it was converted from, the offset and the number of samples.
feedAudio(engine, chunk) ==
    IF ~engine._isReady THEN engine
    ELSE IF ~engine.headerSkipped /\ chunk.length <= WAV_HEADER_SIZE THEN engine
    ELSE LET offset == IF engine.headerSkipped THEN 0 ELSE WAV_HEADER_SIZE
             sampleCount == (chunk.length - offset) \div 2
             fed == [engine EXCEPT
                       !.headerSkipped = TRUE,
                       !.audioBuffer = Append(@, [stream |-> chunk.stream,
                                                  header |-> chunk.header,
                                                  offset |-> offset,
                                                  sampleCount |-> sampleCount]),
                       !.totalSamples = @ + sampleCount]
         IN  IF fed.totalSamples >= sampleRate * segmentSeconds
             THEN transcribeBuffer(fed) ELSE fed

\* WhisperEngine.flush up to its await: the engine afterwards and the call of
\* the transcriber whose completion the returned promise awaits, 0 when the
\* promise resolves without waiting for a transcription.
WhisperEngine_flush(engine) ==
    IF engine.totalSamples > 0
    THEN LET after == transcribeBuffer(engine) IN
         [engine |-> after,
          awaiting |-> IF engine.processing \/ engine.audioBuffer = <<>>
                       THEN 0 ELSE Len(after.transcriber.calls)]
    ELSE [engine |-> engine, awaiting |-> 0]

\* WhisperEngine.transcribeBuffer after its await, without the 'result'
\* event: the call is settled and the finally block clears processing.
settle(engine, call) ==
    [engine EXCEPT !.transcriber.running = @ \ {call}, !.processing = FALSE]

-----------------------------------------------------------------------------
(* NetworkServer (NetworkServer.ts) and the viewer page it serves           *)

maxRecentSegments == 50

MAX_LINES == 30

\* Array.prototype.slice(-n)
LastN(seq, n) == IF Len(seq) > n THEN SubSeq(seq, Len(seq) - n + 1, Len(seq)) ELSE seq

\* The viewer page's ws.onmessage (NetworkServer.ts:374-400) with addSegment
\* (346-352).
onmessage(viewer, msg) ==
    LET line(segment) == [id |-> segment.id, text |-> segment.text]
    IN  CASE msg.type = "welcome" ->
               [viewer EXCEPT !.lines =
                   LastN([i \in DOMAIN msg.payload |-> line(msg.payload[i])], MAX_LINES)]
          [] msg.type = "segment" ->
               [viewer EXCEPT !.lines = LastN(Append(@, line(msg.payload.segment)), MAX_LINES)]
          [] msg.type = "clear" -> [viewer EXCEPT !.lines = <<>>]
          [] OTHER -> viewer

\* NetworkServer.broadcast: every open client of the current WebSocket server
\* receives the message. m is the record of the main process.
broadcast(m, message) ==
    IF m.networkServer.wss = 0 THEN m
    ELSE IF m.viewer.open /\ m.viewer.server = m.networkServer.wss
         THEN [m EXCEPT !.viewer = onmessage(@, message)]
         ELSE m

\* NetworkServer.broadcastSegment
broadcastSegment(m, paced) ==
    broadcast([m EXCEPT !.networkServer.recentSegments =
                            LastN(Append(@, paced.segment), maxRecentSegments)],
              [type |-> "segment", payload |-> paced])

\* NetworkServer.broadcastClear
broadcastClear(m) ==
    broadcast([m EXCEPT !.networkServer.recentSegments = <<>>],
              [type |-> "clear", payload |-> <<>>])

\* NetworkServer.start up to the returned promise: nothing when running,
\* otherwise a new HTTP server and WebSocket server whose listen is pending.
NetworkServer_start(server) ==
    IF server._isRunning THEN server
    ELSE [server EXCEPT !.servers = Append(@, "pending"),
                        !.httpServer = Len(server.servers) + 1,
                        !.wss = Len(server.servers) + 1]

\* The callback of httpServer.listen of the n-th server (NetworkServer.ts:84-89)
listening(server, n) ==
    [server EXCEPT !.servers[n] = "listening", !._isRunning = TRUE]

\* The 'error' listener of the n-th server (NetworkServer.ts:91-97)
error(server, n) ==
    [server EXCEPT !.servers[n] = "failed", !._isRunning = FALSE]

\* NetworkServer.stop: the clients of the current WebSocket server are
\* closed, the current HTTP server is closed.
NetworkServer_stop(m) ==
    LET server == m.networkServer IN
    IF ~server._isRunning THEN m
    ELSE [m EXCEPT
            !.viewer.open = IF server.wss # 0 /\ m.viewer.server = server.wss
                            THEN FALSE ELSE @,
            !.networkServer =
                [server EXCEPT
                    !.servers = [n \in DOMAIN server.servers |->
                                    IF n = server.httpServer
                                       /\ server.servers[n] \in {"pending", "listening"}
                                    THEN "closed" ELSE server.servers[n]],
                    !.httpServer = 0,
                    !.wss = 0,
                    !._isRunning = FALSE]]

\* The 'connection' handler of the n-th WebSocket server (NetworkServer.ts:
\* 65-81): the viewer receives the welcome message.
connection(m, n) ==
    [m EXCEPT !.viewer =
        onmessage([@ EXCEPT !.open = TRUE, !.server = n],
                  [type |-> "welcome", payload |-> m.networkServer.recentSegments])]

-----------------------------------------------------------------------------
(* Display window (index.ts:56-85, display/index.tsx:38-62)                 *)

\* DisplayApp's onTranscriptSegment handler: the new value of lines.
onTranscriptSegment(lines, paced) ==
    LET id == paced.segment.id
        text == paced.segment.text
        existing == {i \in DOMAIN lines : lines[i].id = id}
    IN  IF existing # {}
        THEN LET existingIndex == CHOOSE i \in existing : \A j \in existing : i <= j
             IN  [lines EXCEPT ![existingIndex] = [id |-> id, text |-> text]]
        ELSE LastN(Append(lines, [id |-> id, text |-> text]), 20)

\* index.ts createDisplayWindow
createDisplayWindow(window) ==
    IF window.exists THEN window ELSE [exists |-> TRUE, lines |-> <<>>]

-----------------------------------------------------------------------------
(* handlers.ts: listeners                                                   *)

\* pacingController.on('paced') (handlers.ts:61-70)
onPaced(m, paced) ==
    LET shown == IF m.displayWindow.exists
                 THEN [m EXCEPT !.displayWindow.lines = onTranscriptSegment(@, paced)]
                 ELSE m
    IN  IF shown.networkServer._isRunning THEN broadcastSegment(shown, paced) ELSE shown

\* The 'paced' listener called for each emission of a synchronous run of the
\* pacing engine, in order.
RECURSIVE onPacedAll(_, _)
onPacedAll(m, pacedSeq) ==
    IF pacedSeq = <<>> THEN m
    ELSE onPacedAll(onPaced(m, Head(pacedSeq)), Tail(pacedSeq))

\* sttEngine.on('result') (handlers.ts:38-58) up to the call of enqueue.
onResult(m, segment) ==
    [m EXCEPT !.transcriptBuffer = add(@, segment),
              !.controlWindow = send(@, segment)]

-----------------------------------------------------------------------------
(* Sessions: the IPC handlers of handlers.ts around the pacing engine       *)

MaxChunks == 3

MaxStreams == 2

\* String.prototype.trim on a sequence of characters
RECURSIVE trimStart(_)
trimStart(text) ==
    IF text # <<>> /\ Head(text) \in Whitespace THEN trimStart(Tail(text)) ELSE text

RECURSIVE trimEnd(_)
trimEnd(text) ==
    IF text # <<>> /\ text[Len(text)] \in Whitespace
    THEN trimEnd(SubSeq(text, 1, Len(text) - 1)) ELSE text

trim(text) == trimEnd(trimStart(text))

\* The texts the transcriber returns: silence, and two words.
ResultTexts == { <<" ">>, <<"a", " ", "b", " ">> }

\* The PCM payloads of a chunk in bytes: below and at the length of a segment.
ChunkBytes == { sampleRate * segmentSeconds, 2 * sampleRate * segmentSeconds }

\* The engine becomes st; the 'paced' listener runs for every emission of the
\* run on the main process record m.
Paced(st, m) ==
    /\ SetEngine(st)
    /\ main' = onPacedAll(m, SubSeq(st.emitted, Len(emitted) + 1, Len(st.emitted)))

\* handlers.ts:26-35 with WhisperEngine.init
WhisperInit ==
    /\ ~main.sttReady
    /\ main' = [main EXCEPT !.sttEngine._isReady = TRUE, !.sttReady = TRUE]
    /\ UNCHANGED <<queue, timer, pending, settings, isRunning, emitted, nextId,
                   accepted, discarded, stopped>>

\* A bug that starts the capture without clearing anything.
sessionStart_keeps(m, st) ==
    IF m.sessionStatus # "idle" THEN [m |-> m, st |-> st]
    ELSE [m |-> [m EXCEPT
                   !.audioTesting = FALSE,
                   !.audioCapture = on(on(on(AudioCaptureManager_start(
                                       IF m.audioTesting
                                       THEN removeAllListeners(AudioCaptureManager_stop(@))
                                       ELSE @), "level"), "data"), "error"),
                   !.sessionStatus = "recording",
                   !.session = [stream |-> m.audioCapture.stream + 1, stopped |-> FALSE]],
          st |-> st]

\* The SESSION_START handler (handlers.ts:151-191) on the main process record
\* m and the pacing engine st.
sessionStart(m, st) ==
    IF m.sessionStatus # "idle" THEN [m |-> m, st |-> st]
    ELSE [m |-> [m EXCEPT
                   !.audioTesting = FALSE,
                   !.transcriptBuffer = clearSegments(@),
                   !.audioCapture = on(on(on(AudioCaptureManager_start(
                                       IF m.audioTesting
                                       THEN removeAllListeners(AudioCaptureManager_stop(@))
                                       ELSE @), "level"), "data"), "error"),
                   !.sessionStatus = "recording",
                   !.session = [stream |-> m.audioCapture.stream + 1, stopped |-> FALSE]],
          st |-> clear(st)]

SessionStart ==
    LET r == sessionStart(main, Engine) IN
    /\ main.audioCapture.stream < MaxStreams
    /\ main' = r.m
    /\ SetEngine(r.st)
    /\ discarded' = IF main.sessionStatus = "idle" THEN discarded \cup Ids(queue)
                     ELSE discarded
    /\ UNCHANGED <<settings, nextId, accepted, stopped>>

\* The end of the SESSION_STOP handler, after the await (handlers.ts:203-209)
sessionStopped(m) ==
    [(IF m.networkServer._isRunning THEN broadcastClear(m) ELSE m)
        EXCEPT !.sessionStatus = "idle"]

\* The SESSION_STOP handler (handlers.ts:193-210) up to its await, and to its
\* end when flush() awaits no transcription.
SessionStop ==
    LET halted == [main EXCEPT
                      !.audioCapture = removeAllListeners(AudioCaptureManager_stop(@)),
                      !.session.stopped = TRUE]
        flushed == WhisperEngine_flush(main.sttEngine)
    IN  /\ main' = IF ~main.sttReady THEN sessionStopped(halted)
                   ELSE IF flushed.awaiting = 0
                        THEN sessionStopped([halted EXCEPT !.sttEngine = flushed.engine])
                        ELSE [halted EXCEPT !.sttEngine = flushed.engine,
                                            !.stopAwaiting = flushed.awaiting]
        /\ SetEngine(stop(Engine))
        /\ stopped' = TRUE
        /\ UNCHANGED <<settings, nextId, accepted, discarded>>

\* SESSION_PAUSE / SESSION_RESUME (handlers.ts:212-226)
SessionPause ==
    /\ main.sessionStatus = "recording"
    /\ main' = [main EXCEPT !.audioCapture = pause(@), !.sessionStatus = "paused"]
    /\ UNCHANGED <<queue, timer, pending, settings, isRunning, emitted, nextId,
                   accepted, discarded, stopped>>

SessionResume ==
    /\ main.sessionStatus = "paused"
    /\ main' = [main EXCEPT !.audioCapture = resume(@), !.sessionStatus = "recording"]
    /\ UNCHANGED <<queue, timer, pending, settings, isRunning, emitted, nextId,
                   accepted, discarded, stopped>>

\* AUDIO_TEST_START / AUDIO_TEST_STOP (handlers.ts:126-143)
AudioTestStart ==
    /\ main.sessionStatus = "idle" /\ ~main.audioTesting
    /\ main.audioCapture.stream < MaxStreams
    /\ main' = [main EXCEPT !.audioTesting = TRUE,
                            !.audioCapture = on(AudioCaptureManager_start(@), "level")]
    /\ UNCHANGED <<queue, timer, pending, settings, isRunning, emitted, nextId,
                   accepted, discarded, stopped>>

AudioTestStop ==
    /\ main.audioTesting
    /\ main' = [main EXCEPT !.audioTesting = FALSE,
                            !.audioCapture = removeAllListeners(AudioCaptureManager_stop(@))]
    /\ UNCHANGED <<queue, timer, pending, settings, isRunning, emitted, nextId,
                   accepted, discarded, stopped>>

\* feedAudio called once by each of n 'data' listeners
RECURSIVE feedAudioTimes(_, _, _)
feedAudioTimes(engine, chunk, n) ==
    IF n = 0 THEN engine ELSE feedAudioTimes(feedAudio(engine, chunk), chunk, n - 1)

\* The 'data' listener of the recording stream (AudioCaptureManager.ts:69-76)
\* with the 'data' listener of the session (handlers.ts:180-184): the first
\* chunk of a stream begins with the WAV header.
StreamDataFrom(payloads) ==
    /\ main.audioCapture.recording /\ ~main.audioCapture.paused
    /\ main.audioCapture.delivered < MaxChunks
    /\ \E bytes \in payloads :
          LET first == main.audioCapture.chunks = 0
              chunk == Chunk(main.audioCapture.stream, first,
                             IF first THEN WAV_HEADER_SIZE + bytes ELSE bytes)
              measured == calculateLevel(main.audioCapture.processor, chunk)
          IN  main' = [main EXCEPT
                          !.audioCapture.processor = measured.processor,
                          !.audioCapture.level = measured.level,
                          !.audioCapture.chunks = @ + 1,
                          !.audioCapture.delivered = @ + 1,
                          !.sttEngine = IF main.sttReady
                                        THEN feedAudioTimes(@, chunk,
                                                 listenerCount(main.audioCapture, "data"))
                                        ELSE @]
    /\ UNCHANGED <<queue, timer, pending, settings, isRunning, emitted, nextId,
                   accepted, discarded, stopped>>

StreamData == StreamDataFrom(ChunkBytes)

\* A call of the transcriber settles (STTEngine.ts:194-211): a text that is
\* not empty after trim is emitted as 'result' and handled by handlers.ts:
\* 38-58; processing is cleared; a SESSION_STOP awaiting the call runs to its
\* end.
TranscriberSettles ==
    \E call \in main.sttEngine.transcriber.running :
    \E result \in IF nextId <= MaxSegs THEN ResultTexts ELSE { <<" ">> } :
       LET text == trim(result)
           segment == [id |-> nextId, text |-> text, isFinal |-> TRUE]
           settled == [main EXCEPT !.sttEngine = settle(@, call)]
           finish(m) == IF main.stopAwaiting = call
                        THEN [sessionStopped(m) EXCEPT !.stopAwaiting = 0] ELSE m
       IN  IF text # <<>>
           THEN /\ \E st \in {enqueue(Engine, settings, segment)} :
                      /\ SetEngine(st)
                      /\ main' = finish(onPacedAll(onResult(settled, segment),
                                    SubSeq(st.emitted, Len(emitted) + 1, Len(st.emitted))))
                /\ accepted' = IF settings.mode = "instant" THEN accepted
                                ELSE Append(accepted, segment)
                /\ nextId' = nextId + 1
                /\ stopped' = FALSE
                /\ UNCHANGED <<settings, discarded>>
           ELSE /\ main' = finish(settled)
                /\ UNCHANGED <<queue, timer, pending, settings, isRunning, emitted,
                               nextId, accepted, discarded, stopped>>

\* A wakeup of the pacing engine fires; the 'paced' listener delivers what
\* the callback emits.
PacedTimerFire ==
    /\ \E t \in pending :
          Paced(runCallback([Engine EXCEPT !.pending = @ \ {t}], settings, t.callback),
                main)
    /\ UNCHANGED <<settings, nextId, accepted, discarded, stopped>>

\* DISPLAY_OPEN (handlers.ts:86-88)
DisplayOpen ==
    /\ ~main.displayWindow.exists
    /\ main' = [main EXCEPT !.displayWindow = createDisplayWindow(@)]
    /\ UNCHANGED <<queue, timer, pending, settings, isRunning, emitted, nextId,
                   accepted, discarded, stopped>>

\* SETTINGS_PACING_UPDATE (handlers.ts:146-148) choosing between the two
\* paced modes.
UpdateSettingsPacing == UpdateSettingsFrom({[mode |-> m] : m \in {"sentence", "streaming"}})

MaxServers == 3

\* NETWORK_START (handlers.ts:242-244) up to the promise start() returns
NetworkStart ==
    /\ Len(main.networkServer.servers) < MaxServers
    /\ main' = [main EXCEPT !.networkServer = NetworkServer_start(@)]
    /\ UNCHANGED <<queue, timer, pending, settings, isRunning, emitted, nextId,
                   accepted, discarded, stopped>>

\* The port is bound by at most one server: a pending server starts to
\* listen when no server of this instance listens.
NetworkListening ==
    /\ \E n \in DOMAIN main.networkServer.servers :
          /\ main.networkServer.servers[n] = "pending"
          /\ \A o \in DOMAIN main.networkServer.servers :
                main.networkServer.servers[o] # "listening"
          /\ main' = [main EXCEPT !.networkServer = listening(@, n)]
    /\ UNCHANGED <<queue, timer, pending, settings, isRunning, emitted, nextId,
                   accepted, discarded, stopped>>

\* A pending server fails to listen: the port is in use, by a server of this
\* instance or by another program.
NetworkError ==
    /\ \E n \in DOMAIN main.networkServer.servers :
          /\ main.networkServer.servers[n] = "pending"
          /\ main' = [main EXCEPT !.networkServer = error(@, n)]
    /\ UNCHANGED <<queue, timer, pending, settings, isRunning, emitted, nextId,
                   accepted, discarded, stopped>>

\* NETWORK_STOP (handlers.ts:246-248)
NetworkStop ==
    /\ main' = NetworkServer_stop(main)
    /\ UNCHANGED <<queue, timer, pending, settings, isRunning, emitted, nextId,
                   accepted, discarded, stopped>>

\* A viewer page connects to a listening server.
ViewerConnect ==
    /\ ~main.viewer.open
    /\ \E n \in DOMAIN main.networkServer.servers :
          /\ main.networkServer.servers[n] = "listening"
          /\ main' = connection(main, n)
    /\ UNCHANGED <<queue, timer, pending, settings, isRunning, emitted, nextId,
                   accepted, discarded, stopped>>

NextSession ==
    \/ WhisperInit \/ SessionStart \/ SessionStop \/ StreamData
    \/ TranscriberSettles \/ PacedTimerFire

SpecSession == Init /\ [][NextSession]_vars

NextHandlers ==
    \/ WhisperInit \/ SessionStart \/ SessionStop \/ SessionPause \/ SessionResume
    \/ AudioTestStart \/ AudioTestStop \/ StreamData

SpecHandlers == Init /\ [][NextHandlers]_vars

NextNetwork ==
    NetworkStart \/ NetworkListening \/ NetworkError \/ NetworkStop \/ ViewerConnect

SpecNetwork == Init /\ [][NextNetwork]_vars

-----------------------------------------------------------------------------
(* C32 - SESSION_START resets the buffer and the pacing engine              *)

\* C32: SESSION_START handled in the idle state leaves the transcript buffer
\* empty, the pacing queue empty, the engine idle with no wakeup pending and
\* nothing emitted by the handler, with the capture recording and the status
\* 'recording'; handled in any other state it changes nothing.
C32_SessionStartResets ==
    [][SessionStart =>
          IF main.sessionStatus = "idle"
          THEN /\ main'.transcriptBuffer.segments = <<>>
               /\ queue' = <<>>
               /\ pending' = {}
               /\ ~isRunning'
               /\ emitted' = emitted
               /\ main'.audioCapture.recording
               /\ main'.audioCapture.chunks = 0
               /\ main'.sessionStatus = "recording"
          ELSE UNCHANGED vars]_vars

\* The second session has just started: the first one left emissions, and a
\* segment waiting in the queue that SESSION_START discarded.
C32_Witness ==
    /\ main.session.stream = 2
    /\ main.sessionStatus = "recording"
    /\ main.audioCapture.chunks = 0
    /\ emitted # <<>>
    /\ discarded # {}
    /\ queue = <<>> /\ pending = {} /\ ~isRunning
    /\ main.transcriptBuffer.segments = <<>>

-----------------------------------------------------------------------------
(* Sessions with the display window and a network viewer                    *)

\* The operator opens the display window, starts the network server and
\* chooses the pacing mode before the first session; a viewer connects then.
BeforeFirstSession(A) == main.audioCapture.stream = 0 /\ A

NextDelivery ==
    \/ BeforeFirstSession(DisplayOpen)
    \/ BeforeFirstSession(NetworkStart)
    \/ BeforeFirstSession(NetworkListening)
    \/ BeforeFirstSession(ViewerConnect)
    \/ BeforeFirstSession(UpdateSettingsPacing)
    \/ WhisperInit \/ SessionStart \/ SessionStop \/ StreamData
    \/ TranscriberSettles \/ PacedTimerFire

SpecDelivery == Init /\ [][NextDelivery]_vars

\* C33: from the SESSION_STOP handler's pacingController.stop() until the
\* next SESSION_START no step changes the lines of the display window or
\* adds a line to the viewer or a segment to the recent segments; in
\* particular none follows the 'clear' message of SESSION_STOP.
C33_NothingPacedAfterSessionStop ==
    [][main.session.stopped /\ main'.session.stopped =>
          /\ main'.displayWindow.lines = main.displayWindow.lines
          /\ main'.viewer.lines \in {main.viewer.lines, <<>>}
          /\ main'.networkServer.recentSegments \in
                {main.networkServer.recentSegments, <<>>}]_vars

-----------------------------------------------------------------------------
(* C34 - results of an earlier session                                      *)

\* The calls of the transcriber that settle in the step.
Settling == main.sttEngine.transcriber.running \ main'.sttEngine.transcriber.running

\* C34: while the session status is idle no transcription is in flight, and
\* a step that adds a result to the transcript buffer and the pacing engine
\* settles a transcription of audio of the latest session only.
C34_NoResultOfEarlierSession ==
    /\ [](main.sessionStatus = "idle" => main.sttEngine.transcriber.running = {})
    /\ [][nextId' # nextId =>
             \A call \in Settling :
                \A i \in DOMAIN main.sttEngine.transcriber.calls[call] :
                   main.sttEngine.transcriber.calls[call][i].stream
                      = main.session.stream]_vars

-----------------------------------------------------------------------------
(* C35 - WhisperEngine.flush                                                *)

\* The promise of the flush() called by SESSION_STOP resolves in the step:
\* in the handler's own step when it awaits no transcription, otherwise in
\* the step that settles the awaited call.
FlushResolves ==
    \/ SessionStop /\ main.sttReady /\ main'.stopAwaiting = main.stopAwaiting
    \/ main.stopAwaiting # 0 /\ main'.stopAwaiting = 0

\* C35: when flush() resolves the engine buffers no audio: totalSamples is 0
\* and every array fed before has been passed to the transcriber.
C35_FlushLeavesNoAudio ==
    [][FlushResolves =>
          /\ main'.sttEngine.totalSamples = 0
          /\ main'.sttEngine.audioBuffer = <<>>]_vars

-----------------------------------------------------------------------------
(* C36 - NetworkServer.isRunning                                            *)

\* The servers of this instance in the state.
ServersIn(m, state) ==
    {n \in DOMAIN m.networkServer.servers : m.networkServer.servers[n] = state}

\* C36: isRunning is true exactly when a server created by start() is
\* listening; start() creates no server while the listen of an earlier one is
\* pending; after stop() no server of the instance is listening or pending.
C36_RunningIffListening ==
    /\ [](main.networkServer._isRunning <=> ServersIn(main, "listening") # {})
    /\ [][NetworkStart /\ ServersIn(main, "pending") # {} =>
             main'.networkServer.servers = main.networkServer.servers]_vars
    /\ [][NetworkStop =>
             ServersIn(main', "listening") \cup ServersIn(main', "pending") = {}]_vars

-----------------------------------------------------------------------------
(* C37 - the display window and the network viewer                          *)

\* The lines a newly connected viewer makes of the recent segments.
RecentLines(m) ==
    LastN([i \in DOMAIN m.networkServer.recentSegments |->
              [id |-> m.networkServer.recentSegments[i].id,
               text |-> m.networkServer.recentSegments[i].text]], MAX_LINES)

\* The display window is open, the server is running and the viewer is
\* connected to it.
SinksConnected(m) ==
    /\ m.displayWindow.exists
    /\ m.networkServer._isRunning
    /\ m.viewer.open /\ m.viewer.server = m.networkServer.wss

\* The display window, the viewer and the recent segments present the same
\* list of lines.
SinksAgree(m) ==
    /\ m.viewer.lines = m.displayWindow.lines
    /\ RecentLines(m) = m.displayWindow.lines

\* C37: a step with paced emissions and without the 'clear' of a
\* SESSION_STOP, that starts with the display window, the viewer and the
\* recent segments presenting the same lines, ends with them presenting the
\* same lines.
C37_SinksPresentSameLines ==
    [][/\ NewlyEmitted # <<>>
       /\ main.stopAwaiting = 0
       /\ SinksConnected(main) /\ SinksAgree(main)
       => SinksAgree(main')]_vars

-----------------------------------------------------------------------------
(* C38 - the WAV header of every recording                                  *)

\* The arrays feedAudio has made so far: those passed to the transcriber and
\* those in the buffer.
Arrays(m) ==
    UNION {Range(m.sttEngine.transcriber.calls[c]) :
              c \in DOMAIN m.sttEngine.transcriber.calls}
       \cup Range(m.sttEngine.audioBuffer)

\* The step delivers the first chunk of a recording.
FirstChunk == main.audioCapture.chunks = 0 /\ main'.audioCapture.chunks = 1

\* C38: every array feedAudio made of the first chunk of a recording starts
\* after the 44 bytes of the header, and the level of the first chunk of
\* every recording is measured from byte 44 on.
C38_HeaderSkippedEveryCapture ==
    /\ [](\A array \in Arrays(main) : array.header => array.offset = WAV_HEADER_SIZE)
    /\ [][FirstChunk => main'.audioCapture.level.offset = WAV_HEADER_SIZE]_vars

-----------------------------------------------------------------------------
(* C39 - audioTesting                                                       *)

\* C39: audioTesting is true only while the session status is idle and the
\* capture is recording.
C39_AudioTestingMeansTestRunning ==
    [](main.audioTesting =>
          main.sessionStatus = "idle" /\ main.audioCapture.recording)

====
